---- MODULE Spec2Model ----
(***************************************************************************)
(* f12mqtt: the state accumulator, the event detectors, the timeline, the  *)
(* playback controller, the live pipeline, the feed client and the session *)
(* recorder, as state machines.                                            *)
(*                                                                         *)
(* Encoding of JavaScript values:                                          *)
(*   - `undefined` / an absent property is the string Undefined;           *)
(*   - a nullable object (T | null) is a sequence of length 0 or 1;        *)
(*   - a Record<string, T> keyed by driver number is a function whose      *)
(*     domain is a set of driver numbers (integer-like keys, which         *)
(*     Object.entries visits in ascending numeric order);                  *)
(*   - an ISO-8601 timestamp is a natural number (fixed-width UTC strings  *)
(*     order like the instants they denote), 0 being the empty string.     *)
(***************************************************************************)
EXTENDS Integers, Sequences, FiniteSets, Bags, TLC

(* ------------------------------ bounds -------------------------------- *)

\* Longest timeline handed to the Timeline constructor.
MaxLen == 3
\* Latest timestamp carried by a timeline entry or stamped by the feed clock.
MaxTime == 2
\* Most messages the feed delivers in one live session.
MaxFeed == 3
\* Most snapshots kept by callers of snapshot().
MaxSnapshots == 2

(* --------------------------- JavaScript values ------------------------ *)

Undefined == "undefined"

Min(a, b) == IF a < b THEN a ELSE b
Max(a, b) == IF a > b THEN a ELSE b

\* A call F(x): JavaScript evaluates the argument once, before the call.
Call(F(_), x) == CHOOSE r \in {F(v) : v \in {x}} : TRUE

\* `undefined` where the defined values are numbers.
UndefinedNum == 0 - 1

\* new Date(ts).getTime(): one timestamp unit of the model is 6000 ms.
getTime(ts) == ts * 6000

EmptyMap == [d \in {} |-> Undefined]

\* Object.entries(m) key order: integer-like keys ascending.
RECURSIVE KeysAscending(_)
KeysAscending(S) ==
  IF S = {} THEN <<>>
  ELSE LET k == CHOOSE x \in S : \A y \in S : x <= y
       IN <<k>> \o KeysAscending(S \ {k})

(* ----------------------------- constants ------------------------------ *)

FLAG_NAMES(code) ==
  CASE code = "1" -> "green"
    [] code = "2" -> "yellow"
    [] code = "4" -> "sc"
    [] code = "5" -> "red"
    [] code = "6" -> "vsc"
    [] code = "7" -> "vsc_ending"
    [] OTHER -> Undefined

NON_OVERTAKE_FLAGS == {"sc", "vsc", "vsc_ending", "red"}

(* ------------------------------ parsers ------------------------------- *)

\* parseInt(s, 10) on the position strings of the model.
parseInt(s) ==
  CASE s = "1" -> 1
    [] s = "2" -> 2
    [] s = "3" -> 3
    [] OTHER -> 0

\* parseFloat(s): the number read, as a token; "NaN" when s is no number.
parseFloat(s) ==
  CASE s = "25.0" -> "25"
    [] s = "31.5" -> "31.5"
    [] OTHER -> "NaN"

\* parseTrackStatus without the test of the flag table's answer.
parseTrackStatus_anyCode(raw) ==
  <<[flag |-> FLAG_NAMES(raw.Status), message |-> raw.Message]>>

parseTrackStatus(raw) ==
  LET code == raw.Status IN
  IF code = Undefined \/ code = "" THEN <<>>
  ELSE IF FLAG_NAMES(code) = Undefined THEN <<>>
  ELSE <<[flag |-> FLAG_NAMES(code), message |-> raw.Message]>>

\* An absent Lines is the empty map: both parse to the empty result.
parseTimingData(raw) ==
  [num \in DOMAIN raw.Lines |->
     [position |-> IF raw.Lines[num].Position # Undefined
                     THEN parseInt(raw.Lines[num].Position) ELSE UndefinedNum,
      inPit    |-> raw.Lines[num].InPit,
      retired  |-> raw.Lines[num].Retired]]

\* The stint with the highest key of each driver that has stints.
parseTimingAppData(raw) ==
  LET has == {num \in DOMAIN raw.Lines : DOMAIN raw.Lines[num].Stints # {}}
  IN [num \in has |->
        LET stints    == raw.Lines[num].Stints
            latestKey == CHOOSE k \in DOMAIN stints : \A j \in DOMAIN stints : j <= k
        IN [stintNumber |-> latestKey,
            compound    |-> IF stints[latestKey].Compound = Undefined
                              THEN "UNKNOWN" ELSE stints[latestKey].Compound]]

parseLapCount(raw) ==
  IF raw.CurrentLap = UndefinedNum /\ raw.TotalLaps = UndefinedNum THEN <<>>
  ELSE <<[current |-> IF raw.CurrentLap = UndefinedNum THEN 0 ELSE raw.CurrentLap,
          total   |-> IF raw.TotalLaps = UndefinedNum THEN 0 ELSE raw.TotalLaps]>>

parseWeatherData(raw) ==
  [rainfall |-> IF raw.Rainfall # Undefined
                  THEN (IF raw.Rainfall = "1" THEN "true" ELSE "false") ELSE Undefined,
   airTemp  |-> IF raw.AirTemp # Undefined THEN parseFloat(raw.AirTemp) ELSE Undefined]

\* parseTopThree(raw): Lines is null or the list sent; an entry is kept when
\* its RacingNumber and Tla are truthy; the sort is stable.
parseTopThree(raw) ==
  IF raw.Withheld = "true" \/ raw.Lines = <<>> THEN <<>>
  ELSE
    LET truthy(v) == v # Undefined /\ v # ""
        lines == SelectSeq(raw.Lines[1],
                           LAMBDA entry : truthy(entry.RacingNumber) /\ truthy(entry.Tla))
        kept == [i \in 1..Len(lines) |->
                   [position     |-> parseInt(IF lines[i].Position = Undefined THEN "0"
                                              ELSE lines[i].Position),
                    driverNumber |-> lines[i].RacingNumber,
                    abbreviation |-> lines[i].Tla]]
        rank(i) == 1 + Cardinality({j \in 1..Len(kept) :
                                      \/ kept[j].position < kept[i].position
                                      \/ kept[j].position = kept[i].position /\ j < i})
    IN [k \in 1..Len(kept) |-> kept[CHOOSE i \in 1..Len(kept) : rank(i) = k]]

(* --------------------------- session state ---------------------------- *)

createEmptySessionState ==
  [trackStatus |-> [flag |-> "green", message |-> Undefined],
   lapCount    |-> [current |-> 0, total |-> 0],
   weather     |-> <<>>,
   timing      |-> EmptyMap,
   stints      |-> EmptyMap,
   topThree    |-> <<>>,
   timestamp   |-> 0]

EmptyTiming == [position |-> UndefinedNum, inPit |-> Undefined, retired |-> Undefined]
EmptyWeather == [rainfall |-> Undefined, airTemp |-> Undefined]

\* { ...existing, ...partial } on a timing row: a partial holds only the
\* properties its diff defines.
MergeTiming(existing, partial) ==
  [position |-> IF partial.position # UndefinedNum THEN partial.position
                ELSE existing.position,
   inPit    |-> IF partial.inPit # Undefined THEN partial.inPit ELSE existing.inPit,
   retired  |-> IF partial.retired # Undefined THEN partial.retired
                ELSE existing.retired]

MergeWeather(existing, partial) ==
  [rainfall |-> IF partial.rainfall # Undefined THEN partial.rainfall
                ELSE existing.rainfall,
   airTemp  |-> IF partial.airTemp # Undefined THEN partial.airTemp
                ELSE existing.airTemp]

\* StateAccumulator.applyMessage(topic, data, timestamp)
applyMessage(state, topic, data, timestamp) ==
  LET merged ==
        CASE topic = "TrackStatus" ->
               LET p == parseTrackStatus(data)
               IN IF p = <<>> THEN state ELSE [state EXCEPT !.trackStatus = p[1]]
          [] topic = "TimingData" ->
               LET p == parseTimingData(data)
               IN [state EXCEPT !.timing =
                     [num \in DOMAIN state.timing \cup DOMAIN p |->
                        IF num \in DOMAIN p
                          THEN MergeTiming(IF num \in DOMAIN state.timing
                                             THEN state.timing[num] ELSE EmptyTiming,
                                           p[num])
                          ELSE state.timing[num]]]
          [] topic = "TimingAppData" ->
               LET p == parseTimingAppData(data)
               IN [state EXCEPT !.stints =
                     [num \in DOMAIN state.stints \cup DOMAIN p |->
                        IF num \in DOMAIN p THEN p[num] ELSE state.stints[num]]]
          [] topic = "LapCount" ->
               LET p == parseLapCount(data)
               IN IF p = <<>> THEN state ELSE [state EXCEPT !.lapCount = p[1]]
          [] topic = "WeatherData" ->
               [state EXCEPT !.weather =
                  <<MergeWeather(IF state.weather = <<>> THEN EmptyWeather
                                 ELSE state.weather[1],
                                 parseWeatherData(data))>>]
          [] topic = "TopThree" -> [state EXCEPT !.topThree = parseTopThree(data)]
          [] OTHER -> state
  IN IF timestamp # 0 THEN [merged EXCEPT !.timestamp = timestamp] ELSE merged

\* JSON.parse(JSON.stringify(state)): properties holding undefined are dropped
\* (they read back as undefined) and a NaN number is written as null.
JsonCloneState(state) ==
  [state EXCEPT !.weather =
     IF state.weather = <<>> THEN <<>>
     ELSE <<[state.weather[1] EXCEPT !.airTemp =
               IF state.weather[1].airTemp = "NaN" THEN "null"
               ELSE state.weather[1].airTemp]>>]

(* --------------------------- event detectors -------------------------- *)

detectFlagChange(prev, curr) ==
  IF prev.trackStatus.flag = curr.trackStatus.flag THEN <<>>
  ELSE <<[type         |-> "flag_change",
          timestamp    |-> curr.timestamp,
          previousFlag |-> prev.trackStatus.flag,
          newFlag      |-> curr.trackStatus.flag,
          message      |-> curr.trackStatus.message]>>

\* a < b on positions: false as soon as either side is undefined.
PosLess(a, b) == a # UndefinedNum /\ b # UndefinedNum /\ a < b

\* The drivers `driverNum` passed, in Object.entries order.
RECURSIVE OvertakenBy(_, _, _, _)
OvertakenBy(prev, curr, driverNum, others) ==
  IF others = <<>> THEN <<>>
  ELSE
    LET otherNum == Head(others)
        rest     == OvertakenBy(prev, curr, driverNum, Tail(others))
        hit ==
          /\ otherNum # driverNum
          /\ otherNum \in DOMAIN prev.timing
          /\ PosLess(prev.timing[otherNum].position, prev.timing[driverNum].position)
          /\ PosLess(curr.timing[driverNum].position, curr.timing[otherNum].position)
          /\ ~PosLess(prev.timing[otherNum].position, curr.timing[driverNum].position)
          /\ prev.timing[otherNum].position # UndefinedNum
          /\ curr.timing[driverNum].position # UndefinedNum
          /\ curr.timing[otherNum].inPit # "true"
          /\ prev.timing[otherNum].inPit # "true"
          /\ curr.timing[otherNum].retired # "true"
    IN IF hit
         THEN <<[type             |-> "overtake",
                 timestamp        |-> curr.timestamp,
                 overtakingDriver |-> driverNum,
                 overtakenDriver  |-> otherNum,
                 newPosition      |-> curr.timing[driverNum].position]>> \o rest
         ELSE rest

RECURSIVE OvertakesOf(_, _, _)
OvertakesOf(prev, curr, drivers) ==
  IF drivers = <<>> THEN <<>>
  ELSE
    LET driverNum == Head(drivers)
        rest      == OvertakesOf(prev, curr, Tail(drivers))
        gained ==
          /\ driverNum \in DOMAIN prev.timing
          /\ PosLess(curr.timing[driverNum].position, prev.timing[driverNum].position)
          /\ curr.timing[driverNum].inPit # "true"
    IN IF gained
         THEN OvertakenBy(prev, curr, driverNum, KeysAscending(DOMAIN curr.timing)) \o rest
         ELSE rest

\* detectOvertakes under any flag.
detectOvertakes_anyFlag(prev, curr) ==
  OvertakesOf(prev, curr, KeysAscending(DOMAIN curr.timing))

detectOvertakes(prev, curr) ==
  IF curr.trackStatus.flag \in NON_OVERTAKE_FLAGS THEN <<>>
  ELSE OvertakesOf(prev, curr, KeysAscending(DOMAIN curr.timing))

RECURSIVE PitStopsOf(_, _, _)
PitStopsOf(prev, curr, drivers) ==
  IF drivers = <<>> THEN <<>>
  ELSE
    LET driverNum == Head(drivers)
        currStint == curr.stints[driverNum]
        rest      == PitStopsOf(prev, curr, Tail(drivers))
        skip ==
          IF driverNum \in DOMAIN prev.stints
            THEN currStint.stintNumber <= prev.stints[driverNum].stintNumber
            ELSE currStint.stintNumber = 0
    IN IF skip THEN rest
       ELSE <<[type         |-> "pit_stop",
               timestamp    |-> curr.timestamp,
               driverNumber |-> driverNum,
               newCompound  |-> currStint.compound,
               stintNumber  |-> currStint.stintNumber]>> \o rest

\* detectPitStops that consults no prior stint.
detectPitStops_noPrior(prev, curr) ==
  PitStopsOf([prev EXCEPT !.stints = EmptyMap], curr, KeysAscending(DOMAIN curr.stints))

detectPitStops(prev, curr) ==
  PitStopsOf(prev, curr, KeysAscending(DOMAIN curr.stints))

\* detectWeatherChange that reports nothing while prev has no weather.
detectWeatherChange_noDefault(prev, curr) ==
  IF prev.weather = <<>> \/ curr.weather = <<>> THEN <<>>
  ELSE IF curr.weather[1].rainfall = Undefined
          \/ curr.weather[1].rainfall = prev.weather[1].rainfall THEN <<>>
  ELSE <<[type             |-> "weather_change",
          timestamp        |-> curr.timestamp,
          previousRainfall |-> prev.weather[1].rainfall,
          newRainfall      |-> curr.weather[1].rainfall]>>

detectWeatherChange(prev, curr) ==
  LET prevRainfall == IF prev.weather = <<>> \/ prev.weather[1].rainfall = Undefined
                        THEN "false" ELSE prev.weather[1].rainfall
      currRainfall == IF curr.weather = <<>> THEN Undefined ELSE curr.weather[1].rainfall
  IN IF currRainfall = Undefined THEN <<>>
     ELSE IF prevRainfall = currRainfall THEN <<>>
     ELSE <<[type             |-> "weather_change",
             timestamp        |-> curr.timestamp,
             previousRainfall |-> prevRainfall,
             newRainfall      |-> currRainfall]>>

\* An aggregator that runs the weather detector first.
detectEvents_weatherFirst(prev, curr) ==
  detectWeatherChange(prev, curr) \o detectFlagChange(prev, curr)
    \o detectOvertakes(prev, curr) \o detectPitStops(prev, curr)

detectEvents(prev, curr) ==
  detectFlagChange(prev, curr) \o detectOvertakes(prev, curr)
    \o detectPitStops(prev, curr) \o detectWeatherChange(prev, curr)

(* ------------------------------ timeline ------------------------------ *)

\* Insert e behind every entry whose timestamp is not later (localeCompare <= 0).
RECURSIVE InsertSorted(_, _)
InsertSorted(sorted, e) ==
  IF sorted = <<>> THEN <<e>>
  ELSE IF Head(sorted).timestamp <= e.timestamp
         THEN <<Head(sorted)>> \o InsertSorted(Tail(sorted), e)
         ELSE <<e>> \o sorted

\* [...entries].sort((a, b) => a.timestamp.localeCompare(b.timestamp)): stable.
RECURSIVE SortByTimestamp(_)
SortByTimestamp(entries) ==
  IF entries = <<>> THEN <<>>
  ELSE InsertSorted(SortByTimestamp(SubSeq(entries, 1, Len(entries) - 1)),
                    entries[Len(entries)])

\* A constructor that sorts the caller's array in place and keeps it.
newTimeline_inPlace(entries) ==
  [entries |-> "input",
   arrays  |-> [input |-> SortByTimestamp(entries), copy |-> <<>>]]

\* new Timeline(entries) with the arrays it leaves: the caller's, and the
\* sorted copy [...entries] that this.entries refers to.
newTimeline(entries) ==
  [entries |-> "copy",
   arrays  |-> [input |-> entries, copy |-> SortByTimestamp(entries)]]

\* new Timeline(entries)
Timeline(entries) == SortByTimestamp(entries)

\* Timeline.getEntry(index), index counted from 0: <<>> is undefined.
getEntry(T, index) ==
  IF index >= 0 /\ index < Len(T) THEN <<T[index + 1]>> ELSE <<>>

\* The binary search that moves past an entry at the timestamp.
RECURSIVE BinarySearch_pastEqual(_, _, _, _)
BinarySearch_pastEqual(T, timestamp, lo, hi) ==
  IF lo < hi
    THEN LET mid == (lo + hi) \div 2
         IN IF T[mid + 1].timestamp <= timestamp
              THEN BinarySearch_pastEqual(T, timestamp, mid + 1, hi)
              ELSE BinarySearch_pastEqual(T, timestamp, lo, mid)
    ELSE lo

\* Timeline.findIndex(timestamp): the binary search, lo and hi counted from 0.
RECURSIVE BinarySearch(_, _, _, _)
BinarySearch(T, timestamp, lo, hi) ==
  IF lo < hi
    THEN LET mid == (lo + hi) \div 2
         IN IF T[mid + 1].timestamp < timestamp
              THEN BinarySearch(T, timestamp, mid + 1, hi)
              ELSE BinarySearch(T, timestamp, lo, mid)
    ELSE lo

findIndex(T, timestamp) == BinarySearch(T, timestamp, 0, Len(T))

\* getRange that stops at the first entry at endTime.
getRange_endExclusive(T, startTime, endTime) ==
  SubSeq(T, findIndex(T, startTime) + 1, findIndex(T, endTime))

\* Timeline.getRange(startTime, endTime): endIdx moves past the entries at
\* exactly endTime; slice(startIdx, endIdx) is empty when startIdx >= endIdx.
getRange(T, startTime, endTime) ==
  LET startIdx == findIndex(T, startTime)
      endIdx == findIndex(T, endTime)
      stops == {k \in endIdx..Len(T) :
                  \A j \in (endIdx + 1)..k : T[j].timestamp = endTime}
  IN SubSeq(T, startIdx + 1, CHOOSE k \in stops : \A other \in stops : other <= k)

getTimeRange(T) ==
  IF Len(T) = 0 THEN <<>>
  ELSE <<[start |-> T[1].timestamp, end |-> T[Len(T)].timestamp]>>

(* ---------------------------- data sources ---------------------------- *)
(* stream(from, speed) as the sequence of the entries it yields; the waits  *)
(* between them, which are all that speed decides, are left out.            *)

\* entries.findIndex((e) => e.timestamp >= from), counted from 0; -1 if none.
RECURSIVE FirstAtOrAfter(_, _, _)
FirstAtOrAfter(entries, from, i) ==
  IF i >= Len(entries) THEN 0 - 1
  ELSE IF entries[i + 1].timestamp >= from THEN i
  ELSE FirstAtOrAfter(entries, from, i + 1)

\* RecordedDataSource.stream
recordedStream(entries, from) ==
  LET startIdx == FirstAtOrAfter(entries, from, 0)
  IN IF startIdx = 0 - 1 THEN <<>>
     ELSE SubSeq(entries, startIdx + 1, Len(entries))

\* OpenF1Source.stream: startIdx stays 0 when the loop finds no entry.
openF1Stream(entries, from) ==
  LET found    == FirstAtOrAfter(entries, from, 0)
      startIdx == IF found = 0 - 1 THEN 0 ELSE found
  IN SubSeq(entries, startIdx + 1, Len(entries))

(* ------------------------- playback controller ------------------------ *)

\* The cap on the delay of a tick, in milliseconds.
MaxDelayMs == 5000

\* What setTimeout is armed with when the delay is NaN.
NaNDelay == 0 - 1

\* The delay without the cap: Math.max(0, (nextMs - currentMs) / speed)
cappedDelay_noCap(currentTs, nextTs, speed) ==
  LET diff == getTime(nextTs) - getTime(currentTs) IN
  IF speed > 0 /\ diff >= 0 THEN diff \div speed ELSE 0

\* Math.min(Math.max(0, (nextMs - currentMs) / speed), 5000)
cappedDelay(currentTs, nextTs, speed) ==
  LET diff == getTime(nextTs) - getTime(currentTs) IN
  IF speed = 0
    THEN (IF diff = 0 THEN NaNDelay                \* 0 / 0 is NaN
          ELSE IF diff > 0 THEN MaxDelayMs         \* Infinity, capped
          ELSE 0)                                  \* -Infinity
  ELSE IF speed < 0
    THEN (IF diff > 0 THEN 0 ELSE Min((0 - diff) \div (0 - speed), MaxDelayMs))
  ELSE Min(Max(0, IF diff >= 0 THEN diff \div speed ELSE 0), MaxDelayMs)

\* A PlaybackController: its fields, the timers it has armed, and `out`, the
\* notifications the handler in progress has emitted so far, in order.
\*   timer       "null", "armed" (this.timer is a pending timeout) or "fired"
\*               (this.timer still holds the handle of a timeout that has run)
\*   orphanTicks pending timeouts whose handle this.timer no longer holds
NewController ==
  [timeline     |-> <<>>,
   initialState |-> <<>>,
   accumulator  |-> createEmptySessionState,
   currentIndex |-> 0,
   status       |-> "stopped",
   speed        |-> 1,
   mode         |-> "recorded",
   timer        |-> "null",
   timerDelay   |-> 0,
   orphanTicks  |-> 0,
   out          |-> <<>>]

Length(c) == IF c.timeline = <<>> THEN 0 ELSE Len(c.timeline[1])

getCurrentTime(c) ==
  IF c.timeline = <<>> THEN 0
  ELSE LET entry == getEntry(c.timeline[1], Min(c.currentIndex, Length(c) - 1))
       IN IF entry = <<>> THEN 0 ELSE entry[1].timestamp

getPlaybackState(c) ==
  LET range == IF c.timeline = <<>> THEN <<>> ELSE getTimeRange(c.timeline[1]) IN
  [mode         |-> c.mode,
   status       |-> c.status,
   speed        |-> c.speed,
   currentTime  |-> getCurrentTime(c),
   startTime    |-> IF range = <<>> THEN 0 ELSE range[1].start,
   endTime      |-> IF range = <<>> THEN 0 ELSE range[1].end,
   currentIndex |-> c.currentIndex,
   totalEntries |-> Length(c)]

\* this.emit(name, payload): delivery is synchronous, in emission order.
emit(c, notification) == [c EXCEPT !.out = Append(@, notification)]

RECURSIVE emitEach(_, _)
emitEach(c, events) ==
  IF events = <<>> THEN c
  ELSE emitEach(emit(c, [type |-> "event", event |-> Head(events)]), Tail(events))

\* clearTimer with the clearTimeout forgotten: the handle is kept.
clearTimer_forgotten(c) == c

\* clearTimeout(this.timer); this.timer = null
clearTimer(c) ==
  IF c.timer # "null" THEN [c EXCEPT !.timer = "null"] ELSE c

\* this.timer = setTimeout(..., delay): a pending timeout whose handle is
\* overwritten stays pending.
armTimer(c, delay) ==
  [c EXCEPT !.orphanTicks = IF c.timer = "armed" THEN @ + 1 ELSE @,
            !.timer = "armed",
            !.timerDelay = delay]

\* this.emit('stateChange', this.getPlaybackState())
emitStateChange(c) ==
  emit(c, [type |-> "stateChange", playbackState |-> getPlaybackState(c)])

\* The tail of processEntry: emit `update`, then one `event` per event.
emitUpdate(c, entry, events) ==
  emitEach(emit(c, [type          |-> "update",
                    state         |-> c.accumulator,
                    events        |-> events,
                    entry         |-> entry,
                    playbackState |-> getPlaybackState(c)]),
           events)

\* this.accumulator.applyMessage(entry.topic, entry.data, entry.timestamp)
applyEntry(c, entry) ==
  [c EXCEPT !.accumulator = applyMessage(@, entry.topic, entry.data, entry.timestamp)]

\* processEntry once prevState = this.accumulator.snapshot() is taken.
processAfterSnapshot(prevState, c, entry) ==
  emitUpdate(c, entry, detectEvents(prevState, c.accumulator))

processEntry(c, entry) ==
  Call(LAMBDA applied : processAfterSnapshot(c.accumulator, applied, entry),
       applyEntry(c, entry))

\* finishOrReturn that emits but leaves the status as it is.
finishOrReturn_keepStatus(c) ==
  IF c.currentIndex >= Length(c)
    THEN emitStateChange(emit(c, [type |-> "finished"]))
    ELSE c

\* The first branch of scheduleNext: nothing to deliver.
finishOrReturn(c) ==
  IF c.currentIndex >= Length(c)
    THEN emitStateChange(emit([c EXCEPT !.status = "stopped"], [type |-> "finished"]))
    ELSE c

\* The delay to the entry now at currentIndex, currentIndex having just been
\* advanced past the entry delivered.
delayToNext(c) ==
  cappedDelay(c.timeline[1][c.currentIndex].timestamp,
              c.timeline[1][c.currentIndex + 1].timestamp, c.speed)

RECURSIVE scheduleNext(_)

\* armOrFinish without the final call that ends the playback.
armOrFinish_noFinal(c) ==
  IF getEntry(c.timeline[1], c.currentIndex) # <<>> /\ c.currentIndex < Length(c)
    THEN armTimer(c, delayToNext(c))
    ELSE c

\* scheduleNext after processEntry and currentIndex++: nextEntry, read before
\* the increment at currentIndex + 1, is the entry now at currentIndex.
armOrFinish(c) ==
  IF getEntry(c.timeline[1], c.currentIndex) # <<>> /\ c.currentIndex < Length(c)
    THEN armTimer(c, delayToNext(c))
    ELSE scheduleNext(c)

\* currentIndex++ that skips an entry.
advance_twice(c) == [c EXCEPT !.currentIndex = @ + 2]

advance(c) == [c EXCEPT !.currentIndex = @ + 1]

scheduleNext(c) ==
  IF c.status # "playing" \/ c.timeline = <<>> \/ c.currentIndex >= Length(c)
    THEN finishOrReturn(c)
    ELSE Call(armOrFinish,
              advance(processEntry(c, c.timeline[1][c.currentIndex + 1])))

\* play without the test for a playback already running.
play_noGuard(c) ==
  IF c.timeline = <<>> \/ Length(c) = 0 THEN c
  ELSE scheduleNext(emitStateChange([c EXCEPT !.status = "playing"]))

play(c) ==
  IF c.timeline = <<>> \/ Length(c) = 0 THEN c
  ELSE IF c.status = "playing" THEN c
  ELSE scheduleNext(emitStateChange([c EXCEPT !.status = "playing"]))

pause(c) ==
  emitStateChange(clearTimer([c EXCEPT !.status = "paused"]))

stop(c) ==
  emitStateChange([clearTimer([c EXCEPT !.status = "stopped"]) EXCEPT !.currentIndex = 0])

\* reschedule without the clearTimeout: the pending timeout stays pending.
reschedule_noClear(c) ==
  IF c.status = "playing" /\ c.timer # "null"
    THEN scheduleNext(c)
    ELSE c

\* setSpeed once this.speed is assigned.
reschedule(c) ==
  IF c.status = "playing" /\ c.timer # "null"
    THEN scheduleNext(clearTimer(c))
    ELSE c

setSpeed(c, speed) ==
  emitStateChange(reschedule([c EXCEPT !.speed = speed]))

\* new StateAccumulator(JSON.parse(JSON.stringify(initialState))), or the
\* default state when initialState is null.
freshAccumulator(initialState) ==
  IF initialState # <<>> THEN JsonCloneState(initialState[1])
  ELSE createEmptySessionState

\* for (i = 0; i < targetIndex && i < length; i++) applyMessage(entry i)
RECURSIVE fastForward(_, _, _, _)
fastForward(state, T, i, targetIndex) ==
  IF i < targetIndex /\ i < Len(T)
    THEN fastForward(applyMessage(state, T[i + 1].topic, T[i + 1].data,
                                  T[i + 1].timestamp),
                     T, i + 1, targetIndex)
    ELSE state

\* this.emit('seek', { state, playbackState })
emitSeek(c) ==
  emit(c, [type          |-> "seek",
           state         |-> c.accumulator,
           playbackState |-> getPlaybackState(c)])

\* rebuild that replays onto the accumulator as it stands, without the reset.
rebuild_noReset(c, targetIndex) ==
  emitSeek([c EXCEPT !.accumulator =
                       fastForward(c.accumulator, c.timeline[1], 0, targetIndex),
                     !.currentIndex = targetIndex])

\* rebuild that notifies before it assigns currentIndex.
rebuild_earlyEmit(c, targetIndex) ==
  [emitSeek([c EXCEPT !.accumulator =
                        fastForward(freshAccumulator(c.initialState), c.timeline[1],
                                    0, targetIndex)])
     EXCEPT !.currentIndex = targetIndex]

\* seek from the reset of the accumulator to the `seek` notification.
rebuild(c, targetIndex) ==
  emitSeek([c EXCEPT !.accumulator =
                       fastForward(freshAccumulator(c.initialState), c.timeline[1],
                                   0, targetIndex),
                     !.currentIndex = targetIndex])

\* seek that never resumes.
seek_noResume(c, timestamp) ==
  IF c.timeline = <<>> THEN c
  ELSE IF c.status = "playing"
    THEN rebuild(pause(c), findIndex(c.timeline[1], timestamp))
    ELSE rebuild(c, findIndex(c.timeline[1], timestamp))

seek(c, timestamp) ==
  IF c.timeline = <<>> THEN c
  ELSE IF c.status = "playing"
    THEN Call(play, rebuild(pause(c), findIndex(c.timeline[1], timestamp)))
    ELSE rebuild(c, findIndex(c.timeline[1], timestamp))

\* load between this.stop() and the `loaded` notification.
install(c, timeline, initialState, mode) ==
  [c EXCEPT !.timeline = <<timeline>>,
            !.initialState = initialState,
            !.mode = mode,
            !.currentIndex = 0,
            !.accumulator = freshAccumulator(initialState)]

\* this.emit('loaded', this.getPlaybackState())
emitLoaded(c) ==
  emit(c, [type |-> "loaded", playbackState |-> getPlaybackState(c)])

\* load without this.stop().
load_noStop(c, timeline, initialState, mode) ==
  emitLoaded(install(c, timeline, initialState, mode))

load(c, timeline, initialState, mode) ==
  emitLoaded(install(stop(c), timeline, initialState, mode))

(* ------------------------------ pipeline ------------------------------ *)

\* new SignalRPipeline()
NewPipeline == [accumulator |-> createEmptySessionState, out |-> <<>>]

\* this.accumulator.applyMessage(msg.topic, msg.data, msg.timestamp)
applyToPipeline(p, msg) ==
  [p EXCEPT !.accumulator = applyMessage(@, msg.topic, msg.data, msg.timestamp)]

\* this.emit('update', pipelineMsg)
emitPipelineUpdate(p, events, msg) ==
  emit(p, [type       |-> "update",
           state      |-> p.accumulator,
           events     |-> events,
           rawMessage |-> msg])

\* processMessageAfterSnapshot that notifies of the update first.
processMessageAfterSnapshot_updateFirst(prevState, p, msg) ==
  emitEach(emitPipelineUpdate(p, detectEvents(prevState, p.accumulator), msg),
           detectEvents(prevState, p.accumulator))

\* processMessage once prevState = this.accumulator.snapshot() is taken.
processMessageAfterSnapshot(prevState, p, msg) ==
  emitPipelineUpdate(emitEach(p, detectEvents(prevState, p.accumulator)),
                     detectEvents(prevState, p.accumulator), msg)

\* processMessage that compares with the state before any message.
processMessage_prevEmpty(p, msg) ==
  processMessageAfterSnapshot(createEmptySessionState, applyToPipeline(p, msg), msg)

processMessage(p, msg) ==
  processMessageAfterSnapshot(p.accumulator, applyToPipeline(p, msg), msg)

(* ------------------------------ recorder ------------------------------ *)

\* new SessionRecorder(baseDir, sessionKey, year); `stopped` is kept for the
\* harness, which records once.
NewRecorder == [stream |-> "null", messageCount |-> 0, stopped |-> FALSE]

\* An empty recording directory.
EmptyDir == [lines |-> <<>>, subscribe |-> <<>>]

\* SessionRecorder.start: subscribe.json is written, live.jsonl opened to append.
recorderStart(r, dir, initialState) ==
  [recorder |-> [r EXCEPT !.stream = "open"],
   dir      |-> [dir EXCEPT !.subscribe = <<JsonCloneState(initialState)>>]]

\* write without the test of the stream.
recorderWrite_noGuard(r, dir, msg) ==
  [recorder |-> [r EXCEPT !.messageCount = @ + 1],
   dir      |-> [dir EXCEPT !.lines =
                   Append(@, [ts |-> msg.timestamp, topic |-> msg.topic, data |-> msg.data])]]

\* SessionRecorder.write
recorderWrite(r, dir, msg) ==
  IF r.stream = "null" THEN [recorder |-> r, dir |-> dir]
  ELSE [recorder |-> [r EXCEPT !.messageCount = @ + 1],
        dir      |-> [dir EXCEPT !.lines =
                        Append(@, [ts    |-> msg.timestamp,
                                   topic |-> msg.topic,
                                   data  |-> msg.data])]]

\* SessionRecorder.stop
recorderStop(r) == [r EXCEPT !.stream = "null", !.stopped = TRUE]

(* ----------------------------- feed client ---------------------------- *)

\* topic.endsWith('.z')
EndsWithZ(topic) == topic \in {"CarData.z", "Position.z"}

\* topic.replace('.z', '')
BaseTopic(topic) ==
  CASE topic = "CarData.z"  -> "CarData"
    [] topic = "Position.z" -> "Position"
    [] OTHER -> topic

\* typeof data === 'string': a compressed payload is the string that inflates
\* to the JSON text of `inflated`.
IsString(data) == DOMAIN data = {"inflated"}

\* JSON.parse(await decompressMessage(data))
decompressMessage(data) == data.inflated

(* ------------------------------ web app ------------------------------- *)

\* handlePlaybackCommand(command, value); `Number(value) || 1` for `speed`.
handlePlaybackCommand(c, command, value) ==
  CASE command = "play"  -> play(c)
    [] command = "pause" -> pause(c)
    [] command = "stop"  -> stop(c)
    [] command = "speed" -> setSpeed(c, IF value = 0 THEN 1 ELSE value)
    [] command = "seek"  -> seek(c, value)
    [] OTHER -> c

(* ------------------------------- inputs ------------------------------- *)

MsgRed   == [topic |-> "TrackStatus", data |-> [Status |-> "5", Message |-> Undefined]]
MsgGreen == [topic |-> "TrackStatus", data |-> [Status |-> "1", Message |-> Undefined]]

\* The messages found in the recordings the controller is given.
RecordedMsgs == {MsgRed, MsgGreen}

Timestamps == 1..MaxTime

\* The lines of a live.jsonl: {ts, topic, data}.
RecordedLines ==
  {[ts |-> ts, topic |-> m.topic, data |-> m.data] :
     ts \in Timestamps, m \in RecordedMsgs}

\* The live.jsonl files the web app is given, lines in file order: recordings
\* of uncompressed topics, which the recorder writes as they arrive, each with
\* the clock's reading at its arrival.
RecordedFiles ==
  {f \in UNION {[1..n -> RecordedLines] : n \in 0..MaxLen} :
     \A i \in 1..(Len(f) - 1) : f[i].ts <= f[i + 1].ts}

RedState ==
  [createEmptySessionState EXCEPT !.trackStatus = [flag |-> "red", message |-> Undefined],
                                  !.timestamp = 1]

\* What loadInitialState can return: null, or the parsed subscribe.json.
RecordedInitialStates == {<<>>, <<RedState>>}

\* A CarData.z payload: the deflated JSON text of a car-data frame.
MsgCarZ == [topic |-> "CarData.z", data |-> [inflated |-> [Entries |-> <<>>]]]

\* The messages the feed sends.
FeedMsgs == {MsgRed, MsgGreen, MsgCarZ}

\* The values of a `speed` and of a `seek` command.
SpeedValues == {0 - 1, 0, 2}
SeekValues == 1..(MaxTime + 1)

(* --------------------------- MQTT publisher --------------------------- *)
(* A topic is the sequence of its '/'-separated levels.  A payload is the  *)
(* value handed to F1MqttClient.publish: Str(s) for a string, Obj(o) for   *)
(* an object, which the client sends as its JSON text.  The notifier's     *)
(* payloads are kept as the values they are built from.                    *)

DEFAULT_MQTT_PREFIX == "f12mqtt"

Str(s) == [string |-> s]
Obj(o) == [object |-> o]

\* topics.sessionStatus, sessionInfo, sessionFlag, sessionLeader, sessionLap,
\* sessionWeather, sessionRaceControl: `${p}/session/<name>`
sessionTopic(p, name) == <<p, "session", name>>

\* topics.driverPosition, driverGap, driverTyre, driverStatus
driverTopic(p, num, name) == <<p, "driver", num, name>>

\* topics.eventFlag, eventOvertake, eventPitStop, eventWeather
eventTopic(p, name) == <<p, "event", name>>

awtrixCustomAppTopic(awtrixPrefix, appName) == <<awtrixPrefix, "custom", appName>>
awtrixNotifyTopic(awtrixPrefix) == <<awtrixPrefix, "notify">>

\* An entity id is the sequence of the pieces its template joins with '_'.
discoveryTopic(entityId) ==
  <<"homeassistant", "sensor", "f12mqtt">> \o entityId \o <<"config">>

\* s.replace(piece, ''): the first occurrence of the piece removed.
RECURSIVE replaceFirst(_, _)
replaceFirst(s, piece) ==
  IF s = <<>> THEN <<>>
  ELSE IF Head(s) = piece THEN Tail(s)
  ELSE <<Head(s)>> \o replaceFirst(Tail(s), piece)

sensorPayload(entityId, stateTopic) ==
  [unique_id |-> <<"f12mqtt_">> \o entityId, state_topic |-> stateTopic]

\* { topic: discoveryTopic(unique_id.replace('f12mqtt_', '')), payload }
Entity(payload) ==
  [topic   |-> discoveryTopic(replaceFirst(payload.unique_id, "f12mqtt_")),
   payload |-> payload]

\* driverPositionEntity, driverGapEntity, driverTyreEntity of each favourite.
RECURSIVE DriverEntities(_, _)
DriverEntities(prefix, favoriteDrivers) ==
  IF favoriteDrivers = <<>> THEN <<>>
  ELSE LET num == Head(favoriteDrivers)
       IN <<Entity(sensorPayload(<<"driver", num, "position">>,
                                 driverTopic(prefix, num, "position"))),
            Entity(sensorPayload(<<"driver", num, "gap">>,
                                 driverTopic(prefix, num, "gap"))),
            Entity(sensorPayload(<<"driver", num, "tyre">>,
                                 driverTopic(prefix, num, "tyre")))>>
          \o DriverEntities(prefix, Tail(favoriteDrivers))

\* sessionStatusEntity, flagStatusEntity, raceLeaderEntity, lapCountEntity,
\* weatherStatusEntity, latestOvertakeEntity, latestPitStopEntity,
\* playbackStatusEntity, then the favourites' entities.
ephemeralEntities(prefix, favoriteDrivers) ==
  <<Entity(sensorPayload(<<"session_status">>, sessionTopic(prefix, "status"))),
    Entity(sensorPayload(<<"flag_status">>, sessionTopic(prefix, "flag"))),
    Entity(sensorPayload(<<"race_leader">>, sessionTopic(prefix, "leader"))),
    Entity(sensorPayload(<<"lap_count">>, sessionTopic(prefix, "lap"))),
    Entity(sensorPayload(<<"weather_status">>, sessionTopic(prefix, "weather"))),
    Entity(sensorPayload(<<"latest_overtake">>, eventTopic(prefix, "overtake"))),
    Entity(sensorPayload(<<"latest_pit_stop">>, eventTopic(prefix, "pit_stop"))),
    Entity(sensorPayload(<<"playback_status">>, <<prefix, "playback", "state">>))>>
  \o DriverEntities(prefix, favoriteDrivers)

\* lastWinnerEntity, driversLeaderEntity, constructorsLeaderEntity,
\* nextRaceEntity.
persistentEntities(prefix) ==
  <<Entity(sensorPayload(<<"last_winner">>, <<prefix, "standings", "last_winner">>)),
    Entity(sensorPayload(<<"drivers_leader">>,
                         <<prefix, "standings", "drivers_leader">>)),
    Entity(sensorPayload(<<"constructors_leader">>,
                         <<prefix, "standings", "constructors_leader">>)),
    Entity(sensorPayload(<<"next_race">>, <<prefix, "schedule", "next_race">>))>>

(* F1MqttClient: the publications handed to the broker are collected in    *)
(* the publisher's `out`; `mqtt.connected` is this.client?.connected.       *)

statusTopic(p) == <<p, "status">>

\* publish while not connected: a warning, and nothing is sent.
publish(p, topic, payload, retain) ==
  IF ~p.mqtt.connected THEN p
  ELSE [p EXCEPT !.out = Append(@, [topic |-> topic, payload |-> payload,
                                    retain |-> retain])]

\* publish(topic, payload) with retain defaulting to true.
publishRetained(p, topic, payload) == publish(p, topic, payload, TRUE)

\* publish(topic, payload): retain defaults to false.
publishUnretained(p, topic, payload) == publish(p, topic, payload, FALSE)

clear(p, topic) == publish(p, topic, Str(""), TRUE)

(* MqttPublisher *)

NewPublisher(config) ==
  [sessionActive |-> FALSE, registeredEphemeralTopics |-> <<>>, config |-> config,
   mqtt |-> [connected |-> TRUE], out |-> <<>>]

RECURSIVE publishEntities(_, _)
publishEntities(p, entities) ==
  IF entities = <<>> THEN p
  ELSE publishEntities(publish(p, Head(entities).topic, Obj(Head(entities).payload), TRUE),
                       Tail(entities))

registerPersistentEntities(p) ==
  publishEntities(p, persistentEntities(p.config.prefix))

registerSessionEntities(p) ==
  LET entities == ephemeralEntities(p.config.prefix, p.config.favoriteDrivers)
      remembered == [p EXCEPT !.registeredEphemeralTopics =
                                 [i \in 1..Len(entities) |-> entities[i].topic]]
  IN [publish(publishEntities(remembered, entities),
              sessionTopic(p.config.prefix, "status"), Str("active"), TRUE)
        EXCEPT !.sessionActive = TRUE]

RECURSIVE clearEach(_, _)
clearEach(p, topicList) ==
  IF topicList = <<>> THEN p
  ELSE clearEach(clear(p, Head(topicList)), Tail(topicList))

\* deregisterSessionEntities that keeps the remembered topics.
deregisterSessionEntities_keepTopics(p) ==
  [publish(clearEach(p, p.registeredEphemeralTopics),
           sessionTopic(p.config.prefix, "status"), Str("finished"), TRUE)
     EXCEPT !.sessionActive = FALSE]

deregisterSessionEntities(p) ==
  [publish(clearEach(p, p.registeredEphemeralTopics),
           sessionTopic(p.config.prefix, "status"), Str("finished"), TRUE)
     EXCEPT !.sessionActive = FALSE, !.registeredEphemeralTopics = <<>>]

\* Object.values(state.timing).find((t) => t.position === 1)
RECURSIVE FindLeader(_, _)
FindLeader(timing, keys) ==
  IF keys = <<>> THEN <<>>
  ELSE IF timing[Head(keys)].position = 1 THEN <<timing[Head(keys)]>>
  ELSE FindLeader(timing, Tail(keys))

publishLeader(p, state) ==
  LET leader == FindLeader(state.timing, KeysAscending(DOMAIN state.timing))
  IN IF leader = <<>> THEN p
     ELSE LET num == leader[1].driverNumber
              known == num \in DOMAIN state.drivers
          IN publish(p, sessionTopic(p.config.prefix, "leader"),
                     Obj([driverNumber |-> num,
                          abbreviation |-> IF known THEN state.drivers[num].abbreviation
                                           ELSE num,
                          teamColor    |-> IF known THEN state.drivers[num].teamColor
                                           ELSE "FFFFFF"]),
                     TRUE)

publishFavorite(p, state, num) ==
  IF num \notin DOMAIN state.timing THEN p
  ELSE
    LET prefix == p.config.prefix
        timing == state.timing[num]
        p1 == publish(p, driverTopic(prefix, num, "position"),
                      Str(ToString(timing.position)), TRUE)
        p2 == publish(p1, driverTopic(prefix, num, "gap"),
                      Str(IF timing.position = 1 THEN "LEADER" ELSE timing.gapToLeader),
                      TRUE)
        p3 == IF num \in DOMAIN state.stints
                THEN publish(p2, driverTopic(prefix, num, "tyre"),
                             Obj(state.stints[num]), TRUE)
                ELSE p2
    IN publish(p3, driverTopic(prefix, num, "status"),
               Str(IF timing.retired = "true" THEN "retired"
                   ELSE IF timing.inPit = "true" THEN "pit" ELSE "racing"),
               TRUE)

RECURSIVE publishFavorites(_, _, _)
publishFavorites(p, state, nums) ==
  IF nums = <<>> THEN p
  ELSE publishFavorites(publishFavorite(p, state, Head(nums)), state, Tail(nums))

driverSlots == <<"f1drv1", "f1drv2", "f1drv3">>

RECURSIVE publishDriverApps(_, _, _)
publishDriverApps(p, state, i) ==
  IF ~(i <= Len(p.config.favoriteDrivers) /\ i <= 3) THEN p
  ELSE
    LET num == p.config.favoriteDrivers[i]
    IN IF num \notin DOMAIN state.timing \/ num \notin DOMAIN state.drivers
         THEN publishDriverApps(p, state, i + 1)
         ELSE publishDriverApps(
                publishUnretained(p, awtrixCustomAppTopic(p.config.awtrixPrefix,
                                                          driverSlots[i]),
                  Obj([position     |-> state.timing[num].position,
                       abbreviation |-> state.drivers[num].abbreviation,
                       gap          |-> IF state.timing[num].position = 1 THEN ""
                                        ELSE state.timing[num].gapToLeader,
                       teamColor    |-> state.drivers[num].teamColor])),
                state, i + 1)

publishAwtrixApps(p, state) ==
  LET ap == p.config.awtrixPrefix
      p1 == publishUnretained(p, awtrixCustomAppTopic(ap, "f1flag"),
                              Obj([flag |-> state.trackStatus.flag]))
      p2 == IF state.lapCount.total > 0
              THEN publishUnretained(p1, awtrixCustomAppTopic(ap, "f1lap"),
                                     Obj(state.lapCount))
              ELSE p1
      p3 == publishDriverApps(p2, state, 1)
  IN IF Len(state.topThree) > 0
       THEN publishUnretained(p3, awtrixCustomAppTopic(ap, "f1top3"),
                              Obj(state.topThree))
       ELSE p3

publishSessionTopics(p, state) ==
  LET prefix == p.config.prefix
      p1 == publish(p, sessionTopic(prefix, "flag"), Str(state.trackStatus.flag), TRUE)
      p2 == IF state.lapCount.total > 0
              THEN publish(p1, sessionTopic(prefix, "lap"), Obj(state.lapCount), TRUE)
              ELSE p1
      p3 == IF state.weather # <<>>
              THEN publish(p2, sessionTopic(prefix, "weather"), Obj(state.weather[1]),
                           TRUE)
              ELSE p2
      p4 == IF state.sessionInfo # <<>>
              THEN publish(p3, sessionTopic(prefix, "info"), Obj(state.sessionInfo[1]),
                           TRUE)
              ELSE p3
  IN IF state.latestRaceControlMessage # <<>>
       THEN publish(p4, sessionTopic(prefix, "race_control"),
                    Obj(state.latestRaceControlMessage[1]), TRUE)
       ELSE p4

\* publishState without the test of sessionActive.
publishState_always(p, state) ==
  LET published == publishFavorites(publishLeader(publishSessionTopics(p, state), state),
                                    state, p.config.favoriteDrivers)
  IN IF p.config.awtrixEnabled THEN publishAwtrixApps(published, state) ELSE published

publishState(p, state) ==
  IF ~p.sessionActive THEN p
  ELSE
    LET published == publishFavorites(publishLeader(publishSessionTopics(p, state), state),
                                      state, p.config.favoriteDrivers)
    IN IF p.config.awtrixEnabled THEN publishAwtrixApps(published, state) ELSE published

\* The notifier's part of one event.
notify(p, event) ==
  IF p.config.awtrixEnabled
    THEN publishUnretained(p, awtrixNotifyTopic(p.config.awtrixPrefix), Obj(event))
    ELSE p

publishEvent(p, event) ==
  CASE event.type = "flag_change" ->
         notify(publishUnretained(p, eventTopic(p.config.prefix, "flag"), Obj(event)),
                event)
    [] event.type = "overtake" ->
         notify(publishUnretained(p, eventTopic(p.config.prefix, "overtake"), Obj(event)),
                event)
    [] event.type = "pit_stop" ->
         notify(publishUnretained(p, eventTopic(p.config.prefix, "pit_stop"), Obj(event)),
                event)
    [] event.type = "weather_change" ->
         publishUnretained(p, eventTopic(p.config.prefix, "weather"), Obj(event))
    [] OTHER -> p

RECURSIVE publishEvents(_, _)
publishEvents(p, events) ==
  IF events = <<>> THEN p
  ELSE publishEvents(publishEvent(p, Head(events)), Tail(events))

(* The publisher's configurations and inputs. *)

PublisherConfigs ==
  [prefix          : {DEFAULT_MQTT_PREFIX},
   favoriteDrivers : {<<>>, <<44>>, <<1, 44>>},
   awtrixEnabled   : BOOLEAN,
   awtrixPrefix    : {"awtrix"}]

\* A snapshot before any message, one during a race, and one whose leader has
\* no driver information.
PublishedStates ==
  LET quietSnapshot ==
        [trackStatus |-> [flag |-> "green", message |-> Undefined],
         lapCount    |-> [current |-> 0, total |-> 0],
         weather     |-> <<>>,
         sessionInfo |-> <<>>,
         latestRaceControlMessage |-> <<>>,
         timing      |-> EmptyMap,
         drivers     |-> EmptyMap,
         stints      |-> EmptyMap,
         topThree    |-> <<>>]
  IN {quietSnapshot,
      [trackStatus |-> [flag |-> "red", message |-> "Red Flag"],
       lapCount    |-> [current |-> 2, total |-> 57],
       weather     |-> <<[rainfall |-> "true", airTemp |-> 21]>>,
       sessionInfo |-> <<[name |-> "Race"]>>,
       latestRaceControlMessage |-> <<[message |-> "RED FLAG"]>>,
       timing      |-> (1 :> [driverNumber |-> 1, position |-> 1, gapToLeader |-> "",
                              inPit |-> "false", retired |-> "false"])
                      @@ (44 :> [driverNumber |-> 44, position |-> 2,
                                 gapToLeader |-> "+1.5", inPit |-> "true",
                                 retired |-> "false"]),
       drivers     |-> (1 :> [abbreviation |-> "VER", teamColor |-> "3671C6"])
                      @@ (44 :> [abbreviation |-> "HAM", teamColor |-> "E80020"]),
       stints      |-> (44 :> [compound |-> "SOFT", stintNumber |-> 1]),
       topThree    |-> <<[position |-> 1, abbreviation |-> "VER",
                          teamColor |-> "3671C6"]>>],
      [quietSnapshot EXCEPT
         !.timing = (44 :> [driverNumber |-> 44, position |-> 1, gapToLeader |-> "",
                            inPit |-> "false", retired |-> "true"])]}

PublishedEvents ==
  {<<>>,
   <<[type |-> "flag_change", timestamp |-> 1, previousFlag |-> "green",
      newFlag |-> "red", message |-> Undefined]>>,
   <<[type |-> "overtake", timestamp |-> 1, overtakingDriver |-> 44,
      overtakenDriver |-> 1, newPosition |-> 1],
     [type |-> "pit_stop", timestamp |-> 1, driverNumber |-> 1,
      newCompound |-> "HARD", stintNumber |-> 1]>>,
   <<[type |-> "weather_change", timestamp |-> 2, previousRainfall |-> "false",
      newRainfall |-> "true"]>>}

(* ------------------------ snapshots as objects ------------------------ *)
(* The accumulator's state and its snapshots as JavaScript objects: the    *)
(* heap is a sequence of objects, a reference is an index into it.  A      *)
(* session state object holds a reference to its trackStatus object.       *)

\* The heap of a new StateAccumulator: its state is object 2.
NewStore ==
  [heap  |-> <<[flag |-> "green", message |-> Undefined],
               [trackStatus |-> 1, timestamp |-> 0]>>,
   state |-> 2]

\* The session state an object denotes.
Deref(heap, ref) ==
  [trackStatus |-> heap[heap[ref].trackStatus], timestamp |-> heap[ref].timestamp]

\* The objects it is made of.
ObjectsOf(heap, ref) == {ref, heap[ref].trackStatus}

\* StateAccumulator.snapshot(): a deep copy, the new last object of the heap.
snapshotRefs(s) ==
  [s EXCEPT !.heap =
     Append(Append(@, s.heap[s.heap[s.state].trackStatus]),
            [trackStatus |-> Len(s.heap) + 1,
             timestamp   |-> s.heap[s.state].timestamp])]

\* StateAccumulator.getState(): the state object itself.
getStateRef(s) == s.state

\* StateAccumulator.applyMessage on a TrackStatus diff: the decoded status
\* is written into the trackStatus object, or installed as a new object.
applyMessageRefs(s, msg, inPlace) ==
  LET p == parseTrackStatus(msg.data)
      stamped == [s EXCEPT !.heap[s.state].timestamp =
                             IF msg.timestamp # 0 THEN msg.timestamp ELSE @]
  IN IF msg.topic # "TrackStatus" \/ p = <<>> THEN stamped
     ELSE IF inPlace
       THEN [stamped EXCEPT !.heap[s.heap[s.state].trackStatus] = p[1]]
       ELSE [stamped EXCEPT !.heap = [Append(@, p[1]) EXCEPT
                                        ![s.state].trackStatus = Len(s.heap) + 1]]

\* The two states handed to detectEvents, and what it finds.
Handed(s, prev, curr) ==
  [prev   |-> prev,
   curr   |-> curr,
   events |-> detectFlagChange(Deref(s.heap, prev), Deref(s.heap, curr))]

\* processMessage with prevState = this.accumulator.getState().
processMessageRefs_noCopy(s, msg, inPlace) ==
  LET applied == applyMessageRefs(s, msg, inPlace)
  IN [store  |-> applied,
      handed |-> Handed(applied, getStateRef(s), getStateRef(applied))]

\* SignalRPipeline.processMessage: snapshot, apply, getState, detect.
processMessageRefs(s, msg, inPlace) ==
  LET copied  == snapshotRefs(s)
      applied == applyMessageRefs(copied, msg, inPlace)
  IN [store  |-> applied,
      handed |-> Handed(applied, Len(copied.heap), getStateRef(applied))]

\* PlaybackController.processEntry: the same three calls.
processEntryRefs(s, entry, inPlace) ==
  LET copied  == snapshotRefs(s)
      applied == applyMessageRefs(copied, entry, inPlace)
  IN [store  |-> applied,
      handed |-> Handed(applied, Len(copied.heap), getStateRef(applied))]

\* snap.trackStatus.flag = flag, by whoever holds the snapshot.
writeFlag(s, ref, flag) ==
  [s EXCEPT !.heap[s.heap[ref].trackStatus].flag = flag]

(* ------------------------------- state -------------------------------- *)

VARIABLES
  disk,         \* the recording directory: [lines, subscribe]
  controller,   \* the PlaybackController of the web app
  emitted,      \* the notifications the last step emitted, in order
  op,           \* the last step: the operation that ran
  arg,          \* its argument (0 when it takes none)
  quiet,        \* no command is issued any more: only timers run
  quietFrom,    \* currentIndex when the commands stopped
  sinceQuiet,   \* the notifications emitted since the commands stopped
  clock,        \* the wall clock, which new Date() reads
  fed,          \* the number of feed messages that have arrived
  inflight,     \* the decompressions under way
  pipeline,     \* the SignalRPipeline
  plog,         \* its notifications so far, each with its message's number
  recorder,     \* the SessionRecorder: [stream, messageCount, stopped]
  liveEvents,   \* the events of the messages recorded
  liveEndState, \* the pipeline's snapshot when the recording stopped
  replayEvents, \* the events the controller emitted since the last load
  publisher,    \* the MqttPublisher
  published,    \* the publications of its last call, in order
  call,         \* its last call
  session,      \* the last of register / deregister SessionEntities, if any
  announced,    \* the discovery topics the last registerSessionEntities published
  bus,          \* the retained payloads the broker holds: {[topic, payload]}
  store,        \* a StateAccumulator's objects: [heap, state]
  held,         \* the snapshots its callers keep
  handed,       \* the two states last handed to the detectors
  hop,          \* the last operation on these objects
  prior,        \* the message processed before the last one
  fn,           \* the function called last, on its own
  fargs,        \* its arguments
  fret,         \* what it returned
  started,      \* the last start() of the recorder: its state, and whether stop() followed
  written,      \* the messages handed to write() between that start() and its stop()
  observed      \* what the command an observer issued inside a handler had established

cvars == <<disk, controller, emitted, op, arg>>
qvars == <<quiet, quietFrom, sinceQuiet>>
lvars == <<clock, fed, inflight, pipeline, plog, recorder, liveEvents,
           liveEndState, replayEvents>>
pubvars == <<publisher, published, call, session, announced, bus>>
hvars == <<store, held, handed, hop, prior>>
fvars == <<fn, fargs, fret>>
rvars == <<started, written>>
ovars == <<observed>>

vars == <<disk, controller, emitted, op, arg, quiet, quietFrom, sinceQuiet,
          clock, fed, inflight, pipeline, plog, recorder, liveEvents,
          liveEndState, replayEvents, publisher, published, call, session,
          announced, bus, store, held, handed, hop, prior, fn, fargs, fret,
          started, written, observed>>

\* loadTimeline(sessionDir): the lines of live.jsonl, in file order.
loadTimeline(dir) ==
  [i \in 1..Len(dir.lines) |->
     [timestamp |-> dir.lines[i].ts,
      topic     |-> dir.lines[i].topic,
      data      |-> dir.lines[i].data]]

\* loadInitialState(sessionDir): the parsed subscribe.json, or null.
loadInitialState(dir) == dir.subscribe

\* The controller once the handler that produced c has returned.
Returned(result, name, value) ==
  \E c \in {result} :
    /\ controller' = [c EXCEPT !.out = <<>>]
    /\ emitted' = c.out
    /\ op' = name
    /\ arg' = value
    /\ UNCHANGED disk

PubIdle ==
  /\ publisher = NewPublisher([prefix |-> DEFAULT_MQTT_PREFIX, favoriteDrivers |-> <<>>,
                               awtrixEnabled |-> FALSE, awtrixPrefix |-> "awtrix"])
  /\ published = <<>>
  /\ call = "new"
  /\ session = "none"
  /\ announced = <<>>
  /\ bus = {}

\* No message yet.
NoMessage == [topic |-> "", data |-> <<>>, timestamp |-> 0]

HeapIdle ==
  /\ store = NewStore
  /\ held = {}
  /\ handed = [prev |-> 0, curr |-> 0, events |-> <<>>]
  /\ hop = [name |-> "new", target |-> 0]
  /\ prior = NoMessage

\* No function called on its own yet, no recording started, and no observer
\* has called back into the controller.
FnIdle ==
  /\ fn = "none"
  /\ fargs = <<>>
  /\ fret = <<>>
  /\ started = <<>>
  /\ written = <<>>
  /\ observed = <<>>

CtlInit ==
  /\ disk \in [lines : RecordedFiles, subscribe : RecordedInitialStates]
  /\ controller = NewController
  /\ emitted = <<>>
  /\ op = "new"
  /\ arg = 0

QuietInit ==
  /\ quiet = FALSE
  /\ quietFrom = 0
  /\ sinceQuiet = <<>>

LiveInit ==
  /\ clock = 1
  /\ fed = 0
  /\ inflight = {}
  /\ pipeline = NewPipeline
  /\ plog = <<>>
  /\ recorder = NewRecorder
  /\ liveEvents = <<>>
  /\ liveEndState = <<>>
  /\ replayEvents = <<>>

\* POST /api/playback/load
Load ==
  Returned(load(controller, Timeline(loadTimeline(disk)), loadInitialState(disk),
                "recorded"),
           "load", 0)

CmdPlay == Returned(handlePlaybackCommand(controller, "play", 0), "play", 0)

CmdPause == Returned(handlePlaybackCommand(controller, "pause", 0), "pause", 0)

CmdStop == Returned(handlePlaybackCommand(controller, "stop", 0), "stop", 0)

CmdSpeed ==
  \E value \in SpeedValues :
    Returned(handlePlaybackCommand(controller, "speed", value), "speed", value)

CmdSeek ==
  \E value \in SeekValues :
    Returned(handlePlaybackCommand(controller, "seek", value), "seek", value)

\* The pending timeouts: the one this.timer holds, and the orphans.
PendingTicks(c) ==
  (IF c.timer = "armed" THEN {"held"} ELSE {}) \cup
  (IF c.orphanTicks > 0 THEN {"orphan"} ELSE {})

\* The callback of a timeout: () => this.scheduleNext()
timerCallback(c, tick) ==
  scheduleNext(IF tick = "held" THEN [c EXCEPT !.timer = "fired"]
               ELSE [c EXCEPT !.orphanTicks = @ - 1])

TimerFire ==
  \E tick \in PendingTicks(controller) :
    Returned(timerCallback(controller, tick), "tick", 0)

(* The web app: requests and commands in any order, timers firing in between. *)

Init == CtlInit /\ QuietInit /\ LiveInit /\ PubIdle /\ HeapIdle /\ FnIdle

Next ==
  \/ Load /\ UNCHANGED <<qvars, lvars, pubvars, hvars, fvars, rvars, ovars>>
  \/ CmdPlay /\ UNCHANGED <<qvars, lvars, pubvars, hvars, fvars, rvars, ovars>>
  \/ CmdPause /\ UNCHANGED <<qvars, lvars, pubvars, hvars, fvars, rvars, ovars>>
  \/ CmdStop /\ UNCHANGED <<qvars, lvars, pubvars, hvars, fvars, rvars, ovars>>
  \/ CmdSpeed /\ UNCHANGED <<qvars, lvars, pubvars, hvars, fvars, rvars, ovars>>
  \/ CmdSeek /\ UNCHANGED <<qvars, lvars, pubvars, hvars, fvars, rvars, ovars>>
  \/ TimerFire /\ UNCHANGED <<qvars, lvars, pubvars, hvars, fvars, rvars, ovars>>

Spec == Init /\ [][Next]_vars

(* The web app whose clients fall silent while it is playing: from then on  *)
(* only timers run, and an armed timer eventually fires.                    *)

FallSilent ==
  /\ ~quiet
  /\ controller.status = "playing"
  /\ quiet' = TRUE
  /\ quietFrom' = controller.currentIndex
  /\ sinceQuiet' = <<>>
  /\ UNCHANGED <<cvars, lvars, pubvars, hvars, fvars, rvars, ovars>>

QuietTick ==
  /\ quiet
  /\ TimerFire
  /\ sinceQuiet' = sinceQuiet \o emitted'
  /\ UNCHANGED <<quiet, quietFrom, lvars, pubvars, hvars, fvars, rvars, ovars>>

NextEnd ==
  \/ ~quiet /\ Load /\ UNCHANGED <<qvars, lvars, pubvars, hvars, fvars, rvars, ovars>>
  \/ ~quiet /\ CmdPlay /\ UNCHANGED <<qvars, lvars, pubvars, hvars, fvars, rvars, ovars>>
  \/ ~quiet /\ CmdPause /\ UNCHANGED <<qvars, lvars, pubvars, hvars, fvars, rvars, ovars>>
  \/ ~quiet /\ CmdStop /\ UNCHANGED <<qvars, lvars, pubvars, hvars, fvars, rvars, ovars>>
  \/ ~quiet /\ CmdSpeed /\ UNCHANGED <<qvars, lvars, pubvars, hvars, fvars, rvars, ovars>>
  \/ ~quiet /\ CmdSeek /\ UNCHANGED <<qvars, lvars, pubvars, hvars, fvars, rvars, ovars>>
  \/ ~quiet /\ TimerFire /\ UNCHANGED <<qvars, lvars, pubvars, hvars, fvars, rvars, ovars>>
  \/ FallSilent
  \/ QuietTick

SpecEnd == Init /\ [][NextEnd]_vars /\ WF_vars(QuietTick)

(* The round trip: the feed client's messages go to a recorder and to the   *)
(* live pipeline; once the recording is stopped the directory is loaded    *)
(* and played to its end.                                                  *)

\* The events among the notifications of a log, in order.
RECURSIVE EventsOf(_)
EventsOf(log) ==
  IF log = <<>> THEN <<>>
  ELSE IF Head(log).type = "event"
    THEN <<Head(log).event>> \o EventsOf(Tail(log))
    ELSE EventsOf(Tail(log))

\* The messages handed to the pipeline so far.
Processed == fed - Cardinality(inflight)

\* The notifications of the pipeline's message number n.
Numbered(log, n) == [i \in 1..Len(log) |-> [msg |-> n, type |-> log[i].type]]

\* The 'message' listener: recorder.write(msg); pipeline.processMessage(msg)
OnMessage(msg) ==
  \E p \in {processMessage(pipeline, msg)}, w \in {recorderWrite(recorder, disk, msg)} :
    /\ pipeline' = [p EXCEPT !.out = <<>>]
    /\ plog' = plog \o Numbered(p.out, Processed + 1)
    /\ recorder' = w.recorder
    /\ disk' = w.dir
    /\ liveEvents' = IF recorder.stream = "open"
                       THEN liveEvents \o EventsOf(p.out) ELSE liveEvents

\* The wall clock moves on.
ClockTick ==
  /\ clock < MaxTime
  /\ clock' = clock + 1
  /\ UNCHANGED <<cvars, qvars, fed, inflight, pipeline, plog, recorder,
                 liveEvents, liveEndState, replayEvents>>

\* F1SignalRClient.handleMessage, a compressed topic: the timestamp is taken
\* and the decompression begins.
HandleCompressed ==
  \E m \in FeedMsgs :
    /\ fed < MaxFeed
    /\ ~recorder.stopped
    /\ EndsWithZ(m.topic) /\ IsString(m.data)
    /\ fed' = fed + 1
    /\ inflight' = inflight \cup
                     {[topic |-> m.topic, data |-> m.data, timestamp |-> clock,
                       arrival |-> fed + 1]}
    /\ UNCHANGED <<cvars, qvars, clock, pipeline, plog, recorder, liveEvents,
                   liveEndState, replayEvents>>

\* F1SignalRClient.handleMessage, any other topic: emitted at once.
HandlePlain ==
  \E m \in FeedMsgs :
    /\ fed < MaxFeed
    /\ ~recorder.stopped
    /\ ~(EndsWithZ(m.topic) /\ IsString(m.data))
    /\ fed' = fed + 1
    /\ OnMessage([topic |-> m.topic, data |-> m.data, timestamp |-> clock])
    /\ UNCHANGED <<controller, emitted, op, arg, qvars, clock, inflight,
                   liveEndState, replayEvents>>

\* The .then of decompressMessage: emitted under the base topic with the
\* timestamp of the arrival.
Decompressed ==
  \E d \in inflight :
    /\ inflight' = inflight \ {d}
    /\ OnMessage([topic     |-> BaseTopic(d.topic),
                  data      |-> decompressMessage(d.data),
                  timestamp |-> d.timestamp])
    /\ UNCHANGED <<controller, emitted, op, arg, qvars, clock, fed,
                   liveEndState, replayEvents>>

\* recorder.start(metadata, pipeline.getState())
RecStart ==
  /\ recorder.stream = "null"
  /\ ~recorder.stopped
  /\ \E w \in {recorderStart(recorder, disk, pipeline.accumulator)} :
       /\ recorder' = w.recorder
       /\ disk' = w.dir
  /\ UNCHANGED <<controller, emitted, op, arg, qvars, clock, fed, inflight,
                 pipeline, plog, liveEvents, liveEndState, replayEvents>>

\* liveEndState = pipeline.getState(); await recorder.stop()
RecStop ==
  /\ recorder.stream = "open"
  /\ liveEndState' = <<pipeline.accumulator>>
  /\ recorder' = recorderStop(recorder)
  /\ UNCHANGED <<cvars, qvars, clock, fed, inflight, pipeline, plog,
                 liveEvents, replayEvents>>

\* The recording is loaded once it is stopped.
ReplayLoad ==
  /\ recorder.stopped
  /\ Load
  /\ replayEvents' = <<>>
  /\ UNCHANGED <<qvars, clock, fed, inflight, pipeline, plog, recorder,
                 liveEvents, liveEndState>>

ReplayPlay ==
  /\ recorder.stopped
  /\ CmdPlay
  /\ replayEvents' = replayEvents \o EventsOf(emitted')
  /\ UNCHANGED <<qvars, clock, fed, inflight, pipeline, plog, recorder,
                 liveEvents, liveEndState>>

ReplayTick ==
  /\ TimerFire
  /\ replayEvents' = replayEvents \o EventsOf(emitted')
  /\ UNCHANGED <<qvars, clock, fed, inflight, pipeline, plog, recorder,
                 liveEvents, liveEndState>>

\* A controller nothing has been loaded into.
CtlIdle ==
  /\ controller = NewController
  /\ emitted = <<>>
  /\ op = "new"
  /\ arg = 0

InitLive ==
  /\ disk = EmptyDir
  /\ CtlIdle
  /\ QuietInit
  /\ LiveInit
  /\ PubIdle
  /\ HeapIdle
  /\ FnIdle

NextLive ==
  \/ ClockTick /\ UNCHANGED <<pubvars, hvars, fvars, rvars, ovars>>
  \/ HandleCompressed /\ UNCHANGED <<pubvars, hvars, fvars, rvars, ovars>>
  \/ HandlePlain /\ UNCHANGED <<pubvars, hvars, fvars, rvars, ovars>>
  \/ Decompressed /\ UNCHANGED <<pubvars, hvars, fvars, rvars, ovars>>
  \/ RecStart /\ UNCHANGED <<pubvars, hvars, fvars, rvars, ovars>>
  \/ RecStop /\ UNCHANGED <<pubvars, hvars, fvars, rvars, ovars>>
  \/ ReplayLoad /\ UNCHANGED <<pubvars, hvars, fvars, rvars, ovars>>
  \/ ReplayPlay /\ UNCHANGED <<pubvars, hvars, fvars, rvars, ovars>>
  \/ ReplayTick /\ UNCHANGED <<pubvars, hvars, fvars, rvars, ovars>>

SpecLive == InitLive /\ [][NextLive]_vars

(* The publisher as index.ts drives it: persistent entities at startup,    *)
(* session entities when the feed connects, their removal when it          *)
(* disconnects, state and events on every pipeline update.                 *)

\* The broker: a retained publication replaces the payload it holds for the
\* topic, an empty one removes it; others are passed on and not kept.
RECURSIVE Broker(_, _)
Broker(kept, log) ==
  IF log = <<>> THEN kept
  ELSE LET m == Head(log)
           others == {r \in kept : r.topic # m.topic}
       IN Broker(IF ~m.retain THEN kept
                 ELSE IF m.payload = Str("") THEN others
                 ELSE others \cup {[topic |-> m.topic, payload |-> m.payload]},
                 Tail(log))

\* The publisher once the method that produced p has returned.
PubReturned(result, name) ==
  \E p \in {result} :
    /\ publisher' = [p EXCEPT !.out = <<>>]
    /\ published' = p.out
    /\ call' = name
    /\ bus' = Broker(bus, p.out)

\* The topics of the discovery configs in a list of publications.
ConfigTopics(log) ==
  LET configs == SelectSeq(log, LAMBDA m : Head(m.topic) = "homeassistant"
                                           /\ m.payload # Str(""))
  IN [i \in 1..Len(configs) |-> configs[i].topic]

Startup ==
  /\ call = "new"
  /\ PubReturned(registerPersistentEntities(publisher), "registerPersistentEntities")
  /\ UNCHANGED <<session, announced>>

FeedConnected ==
  /\ call # "new"
  /\ PubReturned(registerSessionEntities(publisher), "registerSessionEntities")
  /\ session' = "registered"
  /\ announced' = ConfigTopics(published')

FeedDisconnected ==
  /\ call # "new"
  /\ PubReturned(deregisterSessionEntities(publisher), "deregisterSessionEntities")
  /\ session' = "deregistered"
  /\ UNCHANGED announced

PipelineUpdateState ==
  /\ call # "new"
  /\ \E state \in PublishedStates :
       PubReturned(publishState(publisher, state), "publishState")
  /\ UNCHANGED <<session, announced>>

PipelineUpdateEvents ==
  /\ call # "new"
  /\ \E events \in PublishedEvents :
       PubReturned(publishEvents(publisher, events), "publishEvents")
  /\ UNCHANGED <<session, announced>>

\* The connection to the broker drops: the broker publishes the client's will.
ConnectionLost ==
  /\ call # "new"
  /\ publisher.mqtt.connected
  /\ publisher' = [publisher EXCEPT !.mqtt.connected = FALSE]
  /\ published' = <<>>
  /\ call' = "close"
  /\ bus' = Broker(bus, <<[topic   |-> statusTopic(publisher.config.prefix),
                           payload |-> Str("offline"), retain |-> TRUE]>>)
  /\ UNCHANGED <<session, announced>>

\* this.client.on('connect', ...) after a reconnection.
Reconnected ==
  /\ call # "new"
  /\ ~publisher.mqtt.connected
  /\ PubReturned(publish([publisher EXCEPT !.mqtt.connected = TRUE],
                         statusTopic(publisher.config.prefix), Str("online"), TRUE),
                 "connect")
  /\ UNCHANGED <<session, announced>>

InitMqtt ==
  /\ disk = EmptyDir
  /\ CtlIdle
  /\ QuietInit
  /\ LiveInit
  /\ publisher \in {NewPublisher(config) : config \in PublisherConfigs}
  /\ published = <<>>
  /\ call = "new"
  /\ session = "none"
  /\ announced = <<>>
  /\ bus = {}
  /\ HeapIdle
  /\ FnIdle

NextMqtt ==
  \/ Startup /\ UNCHANGED <<cvars, qvars, lvars, hvars, fvars, rvars, ovars>>
  \/ FeedConnected /\ UNCHANGED <<cvars, qvars, lvars, hvars, fvars, rvars, ovars>>
  \/ FeedDisconnected /\ UNCHANGED <<cvars, qvars, lvars, hvars, fvars, rvars, ovars>>
  \/ PipelineUpdateState /\ UNCHANGED <<cvars, qvars, lvars, hvars, fvars, rvars, ovars>>
  \/ PipelineUpdateEvents /\ UNCHANGED <<cvars, qvars, lvars, hvars, fvars, rvars, ovars>>

\* The feed's sessions come and go while the connection to the broker does.
NextBus ==
  \/ Startup /\ UNCHANGED <<cvars, qvars, lvars, hvars, fvars, rvars, ovars>>
  \/ FeedConnected /\ UNCHANGED <<cvars, qvars, lvars, hvars, fvars, rvars, ovars>>
  \/ FeedDisconnected /\ UNCHANGED <<cvars, qvars, lvars, hvars, fvars, rvars, ovars>>
  \/ ConnectionLost /\ UNCHANGED <<cvars, qvars, lvars, hvars, fvars, rvars, ovars>>
  \/ Reconnected /\ UNCHANGED <<cvars, qvars, lvars, hvars, fvars, rvars, ovars>>

SpecBus == InitMqtt /\ [][NextBus]_vars

SpecMqtt == InitMqtt /\ [][NextMqtt]_vars

(* The pipeline folding a stream of diffs, as index.ts wires it to the feed *)
(* client: every message goes through processMessage.                       *)

\* The diffs of the feed: full and partial ones of each topic the model
\* decodes, TrackStatus diffs without a recognised code, and a topic it does
\* not decode.
DiffMsgs ==
  {[topic |-> "TrackStatus", data |-> [Status |-> "5", Message |-> "Red"]],
   [topic |-> "TrackStatus", data |-> [Status |-> "1", Message |-> Undefined]],
   [topic |-> "TrackStatus", data |-> [Status |-> "99", Message |-> "Unknown"]],
   [topic |-> "TrackStatus", data |-> [Status |-> Undefined, Message |-> "Unknown"]],
   [topic |-> "LapCount", data |-> [CurrentLap |-> 1, TotalLaps |-> 57]],
   [topic |-> "LapCount", data |-> [CurrentLap |-> 2, TotalLaps |-> UndefinedNum]],
   [topic |-> "TimingData",
    data  |-> [Lines |-> (1 :> [Position |-> "1", InPit |-> "false", Retired |-> Undefined])
                         @@ (44 :> [Position |-> "2", InPit |-> "false", Retired |-> Undefined])]],
   [topic |-> "TimingData",
    data  |-> [Lines |-> (1 :> [Position |-> "2", InPit |-> Undefined, Retired |-> Undefined])
                         @@ (44 :> [Position |-> "1", InPit |-> Undefined, Retired |-> Undefined])]],
   [topic |-> "TimingData",
    data  |-> [Lines |-> (44 :> [Position |-> Undefined, InPit |-> "true", Retired |-> Undefined])]],
   [topic |-> "TimingAppData",
    data  |-> [Lines |-> (44 :> [Stints |-> (0 :> [Compound |-> "SOFT"])])]],
   [topic |-> "TimingAppData",
    data  |-> [Lines |-> (44 :> [Stints |-> (0 :> [Compound |-> Undefined])])]],
   [topic |-> "TimingAppData",
    data  |-> [Lines |-> (44 :> [Stints |-> (1 :> [Compound |-> "HARD"])])]],
   [topic |-> "WeatherData", data |-> [Rainfall |-> "1", AirTemp |-> "25.0"]],
   [topic |-> "WeatherData", data |-> [Rainfall |-> Undefined, AirTemp |-> "31.5"]],
   [topic |-> "Heartbeat", data |-> [Utc |-> "now"]]}

\* The timestamps the feed client stamps them with.
DiffTimestamps == {1, 2}

\* signalRClient.on('message', (msg) => pipeline.processMessage(msg)), for a
\* message of msgs.
Feed(msgs) ==
  \E m \in msgs, ts \in DiffTimestamps :
    \E p \in {processMessage(pipeline,
                             [topic |-> m.topic, data |-> m.data, timestamp |-> ts])} :
      /\ fed < MaxFeed
      /\ fed' = fed + 1
      /\ pipeline' = [p EXCEPT !.out = <<>>]
      /\ emitted' = p.out
      /\ op' = "processMessage"
      /\ arg' = [topic |-> m.topic, data |-> m.data, timestamp |-> ts]
      /\ prior' = arg
      /\ UNCHANGED <<disk, controller, qvars, clock, inflight, plog, recorder,
                     liveEvents, liveEndState, replayEvents, pubvars,
                     store, held, handed, hop, fvars, rvars, ovars>>

InitFold ==
  /\ disk = EmptyDir
  /\ controller = NewController
  /\ emitted = <<>>
  /\ op = "new"
  /\ arg = NoMessage
  /\ QuietInit
  /\ LiveInit
  /\ PubIdle
  /\ HeapIdle
  /\ FnIdle

FeedMessage == Feed(DiffMsgs)

NextFold == FeedMessage

SpecFold == InitFold /\ [][NextFold]_vars

(* The same pipeline fed the TopThree topic. *)

\* TopThree diffs: lists in and out of order, of two to four lines, with a
\* line that has no Tla and one that has no Position, withheld ones with and
\* without lines, one with neither; and a diff of another topic.
TopThreeMsgs ==
  LET ANT == [Position |-> "1", RacingNumber |-> "12", Tla |-> "ANT"]
      PIA == [Position |-> "2", RacingNumber |-> "81", Tla |-> "PIA"]
      VER == [Position |-> "3", RacingNumber |-> "1", Tla |-> "VER"]
      HAM == [Position |-> Undefined, RacingNumber |-> "44", Tla |-> "HAM"]
      RUS == [Position |-> "1", RacingNumber |-> "63", Tla |-> Undefined]
  IN {[topic |-> "TopThree", data |-> [Lines |-> <<<<ANT, PIA>>>>, Withheld |-> "false"]],
      [topic |-> "TopThree", data |-> [Lines |-> <<<<VER, ANT, PIA>>>>, Withheld |-> Undefined]],
      [topic |-> "TopThree", data |-> [Lines |-> <<<<ANT, PIA, VER, HAM>>>>,
                                       Withheld |-> Undefined]],
      [topic |-> "TopThree", data |-> [Lines |-> <<<<PIA, RUS>>>>, Withheld |-> "false"]],
      [topic |-> "TopThree", data |-> [Lines |-> <<>>, Withheld |-> "true"]],
      [topic |-> "TopThree", data |-> [Lines |-> <<<<ANT>>>>, Withheld |-> "true"]],
      [topic |-> "TopThree", data |-> [Lines |-> <<>>, Withheld |-> Undefined]],
      [topic |-> "TrackStatus", data |-> [Status |-> "5", Message |-> "Red"]]}

FeedTopThree == Feed(TopThreeMsgs)

NextTop == FeedTopThree

SpecTop == InitFold /\ [][NextTop]_vars

(* A recorder whose start, write and stop are called in any order, on one  *)
(* recording directory.                                                    *)

\* The snapshots handed to start(): the defaults, one under a red flag, and
\* one whose air temperature did not parse.
StartStates ==
  {createEmptySessionState, RedState,
   [createEmptySessionState EXCEPT
      !.weather = <<[rainfall |-> "true", airTemp |-> "NaN"]>>]}

\* recorder.start(metadata, initialState)
CallStart ==
  \E initialState \in StartStates :
    \E w \in {recorderStart(recorder, disk, initialState)} :
      /\ recorder' = w.recorder
      /\ disk' = w.dir
      /\ started' = <<[state |-> initialState, stopped |-> FALSE]>>
      /\ written' = <<>>
      /\ op' = "start"
      /\ arg' = NoMessage
      /\ UNCHANGED fed

\* recorder.write(msg)
CallWrite ==
  \E m \in RecordedMsgs, ts \in Timestamps :
    \E w \in {recorderWrite(recorder, disk,
                            [topic |-> m.topic, data |-> m.data, timestamp |-> ts])} :
      /\ fed < MaxFeed
      /\ fed' = fed + 1
      /\ recorder' = w.recorder
      /\ disk' = w.dir
      /\ written' = IF started # <<>> /\ ~started[1].stopped
                      THEN Append(written, [topic |-> m.topic, data |-> m.data,
                                            timestamp |-> ts])
                      ELSE written
      /\ op' = "write"
      /\ arg' = [topic |-> m.topic, data |-> m.data, timestamp |-> ts]
      /\ UNCHANGED started

\* await recorder.stop()
CallStop ==
  /\ recorder' = recorderStop(recorder)
  /\ started' = IF started = <<>> THEN <<>> ELSE <<[started[1] EXCEPT !.stopped = TRUE]>>
  /\ op' = "stop"
  /\ arg' = NoMessage
  /\ UNCHANGED <<disk, written, fed>>

RecFrame ==
  UNCHANGED <<controller, emitted, qvars, clock, inflight, pipeline, plog, liveEvents,
              liveEndState, replayEvents, pubvars, hvars, fvars, ovars>>

InitRec == InitFold

NextRec ==
  \/ CallStart /\ RecFrame
  \/ CallWrite /\ RecFrame
  \/ CallStop /\ RecFrame

SpecRec == InitRec /\ [][NextRec]_vars

(* Functions called on their own, each on inputs of its domain. *)

\* The entry lists handed to new Timeline(), in any order; an entry's data is
\* its place in the list.
EntryLists ==
  LET stamps == 1..(MaxTime + 1)
  IN UNION {{[i \in 1..n |-> [timestamp |-> f[i], topic |-> "Heartbeat", data |-> i]] :
               f \in [1..n -> stamps]} : n \in 0..(MaxLen + 1)}

\* The timestamps asked for: from before the first to after the last.
AskedTimes == 0..(MaxTime + 2)

Called(name, args, result) ==
  /\ fn' = name
  /\ fargs' = args
  /\ fret' = result
  /\ UNCHANGED <<cvars, qvars, lvars, pubvars, hvars, rvars, ovars>>

\* const timeline = new Timeline(entries)
CallTimeline ==
  \E entries \in EntryLists : Called("Timeline", <<entries>>, newTimeline(entries))

\* What the caller can do to its array afterwards: push, pop, reverse, and an
\* assignment to its first element.
Mutations(a) ==
  LET pushed == [timestamp |-> 1, topic |-> "Heartbeat", data |-> Len(a) + 1]
  IN {Append(a, pushed)} \cup
     (IF a = <<>> THEN {}
      ELSE {SubSeq(a, 1, Len(a) - 1),
            [i \in 1..Len(a) |-> a[Len(a) + 1 - i]],
            [a EXCEPT ![1] = [pushed EXCEPT !.timestamp = MaxTime + 1]]})

\* The caller changes the array it handed to the constructor.
MutateInput ==
  /\ fn = "Timeline"
  /\ \E changed \in Mutations(fret.arrays.input) :
       /\ fn' = "mutate"
       /\ fret' = [fret EXCEPT !.arrays.input = changed]
  /\ UNCHANGED <<fargs, cvars, qvars, lvars, pubvars, hvars, rvars, ovars>>

\* new Timeline(entries).findIndex(t)
CallFindIndex ==
  \E entries \in EntryLists, t \in AskedTimes :
    Called("findIndex", <<Timeline(entries), t>>, findIndex(Timeline(entries), t))

\* new Timeline(entries).getRange(a, b)
CallGetRange ==
  \E entries \in EntryLists, a \in AskedTimes, b \in AskedTimes :
    Called("getRange", <<Timeline(entries), a, b>>, getRange(Timeline(entries), a, b))

\* Pairs of snapshots of three drivers for the overtake detector: prev holds
\* them in an order, curr at any positions, under each flag; at most one
\* driver is out of the ordinary, in one way.
RaceDrivers == {1, 44, 63}

Oddities ==
  {[driver |-> 0, kind |-> "none"]}
  \cup [driver : RaceDrivers,
        kind   : {"currInPit", "prevInPit", "currRetired", "prevRetired",
                  "absentPrev", "absentCurr", "currNoPosition", "prevNoPosition"}]

\* The given side's snapshot: "prev" or "curr".
RaceSnapshot(side, positions, odd, flag) ==
  LET is(num, kind) == odd.driver = num /\ odd.kind = kind
      absent == IF side = "prev" THEN "absentPrev" ELSE "absentCurr"
  IN [createEmptySessionState EXCEPT
        !.trackStatus = [flag |-> flag, message |-> Undefined],
        !.timestamp = IF side = "prev" THEN 1 ELSE 2,
        !.timing =
          [num \in {d \in RaceDrivers : ~is(d, absent)} |->
             [position |-> IF is(num, side \o "NoPosition") THEN UndefinedNum
                           ELSE positions[num],
              inPit    |-> IF is(num, side \o "InPit") THEN "true" ELSE "false",
              retired  |-> IF is(num, side \o "Retired") THEN "true" ELSE "false"]]]

\* detectOvertakes(prev, curr)
CallDetectOvertakes ==
  \E before \in {f \in [RaceDrivers -> 1..3] : \A a, b \in RaceDrivers : f[a] = f[b] => a = b},
     after \in [RaceDrivers -> 1..3],
     odd \in Oddities,
     flag \in {"green", "yellow", "sc", "vsc", "vsc_ending", "red"} :
    LET prev == RaceSnapshot("prev", before, odd, "green")
        curr == RaceSnapshot("curr", after, odd, flag)
    IN Called("detectOvertakes", <<prev, curr>>, detectOvertakes(prev, curr))

\* The stints of two drivers: each without a stint yet, or in stint 0, 1 or 2.
StintMaps ==
  UNION {[drivers -> [compound : {"SOFT"}, stintNumber : 0..2]] :
           drivers \in SUBSET {1, 44}}

\* detectPitStops(prev, curr)
CallDetectPitStops ==
  \E before \in StintMaps, after \in StintMaps :
    LET prev == [createEmptySessionState EXCEPT !.stints = before, !.timestamp = 1]
        curr == [createEmptySessionState EXCEPT !.stints = after, !.timestamp = 2]
    IN Called("detectPitStops", <<prev, curr>>, detectPitStops(prev, curr))

\* No weather yet, or weather whose rainfall is true, false, or not sent yet.
Weathers ==
  {<<>>} \cup {<<[rainfall |-> r, airTemp |-> "25"]>> : r \in {"true", "false", Undefined}}

\* detectWeatherChange(prev, curr)
CallDetectWeatherChange ==
  \E before \in Weathers, after \in Weathers :
    LET prev == [createEmptySessionState EXCEPT !.weather = before, !.timestamp = 1]
        curr == [createEmptySessionState EXCEPT !.weather = after, !.timestamp = 2]
    IN Called("detectWeatherChange", <<prev, curr>>, detectWeatherChange(prev, curr))

\* Pairs of snapshots in which any of the four kinds of event can occur
\* together: the flag red or green on each side, three drivers who keep their
\* places, or two of whom swap theirs, stints and weather before and after.
RaceOrders ==
  {[d \in RaceDrivers |-> CASE d = 1 -> 1 [] d = 44 -> 2 [] d = 63 -> 3],
   [d \in RaceDrivers |-> CASE d = 1 -> 2 [] d = 44 -> 1 [] d = 63 -> 3],
   [d \in RaceDrivers |-> CASE d = 1 -> 3 [] d = 44 -> 2 [] d = 63 -> 1]}

\* detectEvents(prev, curr)
CallDetectEvents ==
  \E before \in {"green", "red"}, after \in {"green", "red"},
     order \in RaceOrders,
     stintsBefore \in {m \in StintMaps : \A d \in DOMAIN m : m[d].stintNumber = 1},
     stintsAfter \in {m \in StintMaps : \A d \in DOMAIN m : m[d].stintNumber >= 1},
     weatherBefore \in Weathers, weatherAfter \in Weathers :
    LET none == [driver |-> 0, kind |-> "none"]
        prev == [RaceSnapshot("prev", CHOOSE o \in RaceOrders : o[1] = 1, none, before)
                   EXCEPT !.stints = stintsBefore, !.weather = weatherBefore]
        curr == [RaceSnapshot("curr", order, none, after)
                   EXCEPT !.stints = stintsAfter, !.weather = weatherAfter]
    IN Called("detectEvents", <<prev, curr>>, detectEvents(prev, curr))

\* source.stream(from, speed) of each source over the same sorted entries:
\* loadEntries sorts them, and a recording of uncompressed topics is in order.
CallStream ==
  \E entries \in EntryLists, from \in AskedTimes :
    Called("stream", <<Timeline(entries), from>>,
           [recorded |-> recordedStream(Timeline(entries), from),
            openf1   |-> openF1Stream(Timeline(entries), from)])

InitFn == InitFold

\* One call, made from the idle state; the caller of the constructor may then
\* change its array.
NextFn ==
  \/ /\ fn = "none"
     /\ \/ CallFindIndex
        \/ CallGetRange
        \/ CallDetectOvertakes
        \/ CallDetectPitStops
        \/ CallDetectWeatherChange
        \/ CallTimeline
        \/ CallDetectEvents
        \/ CallStream
  \/ MutateInput

SpecFn == InitFn /\ [][NextFn]_vars

(* An accumulator whose snapshots are kept and written to by their holders, *)
(* while a pipeline or a controller goes on applying messages to it.        *)

\* const snap = acc.snapshot()
TakeSnapshot ==
  /\ Cardinality(held) < MaxSnapshots
  /\ store' = snapshotRefs(store)
  /\ held' = held \cup {Len(store'.heap)}
  /\ hop' = [name |-> "snapshot", target |-> Len(store'.heap)]
  /\ UNCHANGED <<handed, fed>>

PipelineMessage ==
  \E m \in RecordedMsgs, inPlace \in BOOLEAN :
    \E r \in {processMessageRefs(store, [topic |-> m.topic, data |-> m.data,
                                         timestamp |-> fed + 1], inPlace)} :
      /\ fed < MaxFeed
      /\ fed' = fed + 1
      /\ store' = r.store
      /\ handed' = r.handed
      /\ hop' = [name |-> "processMessage", target |-> store.state]
      /\ UNCHANGED held

ControllerEntry ==
  \E m \in RecordedMsgs, inPlace \in BOOLEAN :
    \E r \in {processEntryRefs(store, [topic |-> m.topic, data |-> m.data,
                                       timestamp |-> fed + 1], inPlace)} :
      /\ fed < MaxFeed
      /\ fed' = fed + 1
      /\ store' = r.store
      /\ handed' = r.handed
      /\ hop' = [name |-> "processEntry", target |-> store.state]
      /\ UNCHANGED held

\* The holder of a snapshot writes to it.
MutateSnapshot ==
  \E ref \in held :
    /\ Deref(store.heap, ref).trackStatus.flag # "yellow"
    /\ store' = writeFlag(store, ref, "yellow")
    /\ hop' = [name |-> "mutate", target |-> ref]
    /\ UNCHANGED <<held, handed, fed>>

InitHeap ==
  /\ disk = EmptyDir
  /\ CtlIdle
  /\ QuietInit
  /\ LiveInit
  /\ PubIdle
  /\ HeapIdle
  /\ FnIdle

HeapFrame ==
  UNCHANGED <<cvars, qvars, clock, inflight, pipeline, plog, recorder, liveEvents,
              liveEndState, replayEvents, pubvars, prior, fvars, rvars, ovars>>

NextHeap ==
  \/ TakeSnapshot /\ HeapFrame
  \/ PipelineMessage /\ HeapFrame
  \/ ControllerEntry /\ HeapFrame
  \/ MutateSnapshot /\ HeapFrame

SpecHeap == InitHeap /\ [][NextHeap]_vars

(* ------------------- observers that call back in -------------------- *)
(* EventEmitter.emit runs the listeners synchronously.  A listener of       *)
(* `update` that calls a method of the controller runs it inside            *)
(* processEntry, before the events are emitted and before scheduleNext      *)
(* increments currentIndex and arms the next timeout.  The listener is     *)
(* registered with once(): it runs for one `update`.                        *)

\* The calls a listener makes: the method and the timestamp handed to seek.
ObserverCalls ==
  {<<"play", 0>>, <<"pause", 0>>, <<"stop", 0>>} \cup
  {<<"seek", t>> : t \in SeekValues}

\* The events processEntry detects for the entry at currentIndex.
eventsOfCurrent(c) ==
  LET entry == c.timeline[1][c.currentIndex + 1]
  IN detectEvents(c.accumulator, applyEntry(c, entry).accumulator)

\* scheduleNext from its start to the return of the `update` listener, which
\* calls the method `cb` names.
inHandler(c, cb) ==
  LET entry   == c.timeline[1][c.currentIndex + 1]
      applied == applyEntry(c, entry)
      updated == emit(applied, [type          |-> "update",
                                state         |-> applied.accumulator,
                                events        |-> eventsOfCurrent(c),
                                entry         |-> entry,
                                playbackState |-> getPlaybackState(applied)])
  IN handlePlaybackCommand(updated, cb[1], cb[2])

\* scheduleNext from the return of the `update` listener on: the events are
\* emitted, currentIndex is incremented and, nextEntry having been read before
\* the entry was processed, the next timeout is armed or scheduleNext is
\* called once more.  c is the controller scheduleNext started from and mid
\* the controller the listener left.
afterHandler(c, mid) ==
  LET currentEntry == c.timeline[1][c.currentIndex + 1]
      nextEntry    == getEntry(c.timeline[1], c.currentIndex + 1)
      after        == advance(emitEach(mid, eventsOfCurrent(c)))
  IN IF nextEntry # <<>> /\ after.currentIndex < Length(after)
       THEN armTimer(after, cappedDelay(currentEntry.timestamp,
                                        nextEntry[1].timestamp, after.speed))
       ELSE scheduleNext(after)

\* scheduleNext has an entry to deliver.
Delivers(c) ==
  /\ c.status = "playing"
  /\ c.timeline # <<>>
  /\ c.currentIndex < Length(c)

\* A scheduleNext that starts from c, with the listener calling back.
ObservedFrom(c, name) ==
  /\ observed = <<>>
  /\ Delivers(c)
  /\ \E cb \in ObserverCalls :
       \E mid \in {inHandler(c, cb)} :
         /\ observed' = <<[cmd          |-> cb[1],
                           currentIndex |-> mid.currentIndex,
                           status       |-> mid.status,
                           pending      |-> (IF mid.timer = "armed" THEN 1 ELSE 0)
                                              + mid.orphanTicks]>>
         /\ Returned(afterHandler(c, mid), name, cb[2])

\* A timeout fires and the listener calls back while its entry is delivered.
ObservedTick ==
  \E tick \in PendingTicks(controller) :
    ObservedFrom(IF tick = "held" THEN [controller EXCEPT !.timer = "fired"]
                 ELSE [controller EXCEPT !.orphanTicks = @ - 1],
                 "tickObserved")

\* play(), and the listener calls back while the first entry is delivered.
ObservedPlay ==
  /\ controller.timeline # <<>>
  /\ Length(controller) > 0
  /\ controller.status # "playing"
  /\ ObservedFrom(emitStateChange([controller EXCEPT !.status = "playing"]),
                  "playObserved")

NextObs ==
  \/ Load /\ UNCHANGED <<qvars, lvars, pubvars, hvars, fvars, rvars, ovars>>
  \/ CmdPlay /\ UNCHANGED <<qvars, lvars, pubvars, hvars, fvars, rvars, ovars>>
  \/ CmdPause /\ UNCHANGED <<qvars, lvars, pubvars, hvars, fvars, rvars, ovars>>
  \/ TimerFire /\ UNCHANGED <<qvars, lvars, pubvars, hvars, fvars, rvars, ovars>>
  \/ ObservedTick /\ UNCHANGED <<qvars, lvars, pubvars, hvars, fvars, rvars>>
  \/ ObservedPlay /\ UNCHANGED <<qvars, lvars, pubvars, hvars, fvars, rvars>>

SpecObs == Init /\ [][NextObs]_vars

(* ------------------------ playback: the claims ------------------------ *)

Loaded == controller.timeline # <<>>

\* The loaded timeline (the empty one before any load).
T == IF Loaded THEN controller.timeline[1] ELSE <<>>

\* s0, the default state when it is null.
S0 ==
  IF controller.initialState = <<>> THEN createEmptySessionState
  ELSE controller.initialState[1]

\* s with the entries es applied in order.
RECURSIVE ApplyAll(_, _)
ApplyAll(s, es) ==
  IF es = <<>> THEN s
  ELSE LET e == es[Len(es)]
       IN applyMessage(ApplyAll(s, SubSeq(es, 1, Len(es) - 1)),
                       e.topic, e.data, e.timestamp)

\* s0 with T[0 .. k) applied.
Prefix(k) == ApplyAll(S0, SubSeq(T, 1, k))

Types(log) == [i \in 1..Len(log) |-> log[i].type]

Positions(log, type) == {i \in 1..Len(log) : log[i].type = type}

NoDelivery(log) == \A i \in 1..Len(log) : log[i].type \notin {"update", "event"}

IsUpdate(n) == n.type = "update"

Finished(log) == Positions(log, "finished") # {}

\* The indices of the entries a log delivers through `update`, in order.
Delivered(log) ==
  LET updates == SelectSeq(log, IsUpdate)
  IN [i \in 1..Len(updates) |-> updates[i].playbackState.currentIndex]

\* C1 as stated: after any sequence of operations since load(T, s0), seek(t)
\* leaves currentIndex = findIndex(t) and the snapshot s0 with T[0 .. findIndex(t))
\* applied.
SeekDeterminism ==
  (op = "seek" /\ Loaded) =>
     /\ controller.currentIndex = findIndex(T, arg)
     /\ controller.accumulator = Prefix(findIndex(T, arg))

\* C1 amended: the `seek` notification of seek(t) carries currentIndex =
\* findIndex(t) and the snapshot s0 with T[0 .. findIndex(t)) applied, and so
\* does the controller when seek returns if it was not playing; if it was
\* playing, seek resumes and has delivered T[findIndex(t)] when it returns, so
\* currentIndex = min(findIndex(t) + 1, length), the snapshot being s0 with
\* T[0 .. currentIndex) applied.
SeekDeterminismAmended ==
  [][(op' = "seek" /\ Loaded) =>
       LET target  == findIndex(T, arg')
           resumed == IF controller.status = "playing"
                        THEN Min(target + 1, Len(T)) ELSE target
       IN /\ controller'.currentIndex = resumed
          /\ controller'.accumulator = ApplyAll(S0, SubSeq(T, 1, resumed))
          /\ \A i \in Positions(emitted', "seek") :
               /\ emitted'[i].playbackState.currentIndex = target
               /\ emitted'[i].state = ApplyAll(S0, SubSeq(T, 1, target))]_vars

\* A seek of a paused controller into the middle of a timeline it has played.
SeekDeterminismWitness ==
  /\ op = "seek"
  /\ Loaded
  /\ controller.status = "paused"
  /\ controller.currentIndex = 1
  /\ Len(T) = 3
  /\ controller.accumulator # S0

\* The multiset of the elements of a sequence.
BagOfSeq(seq) ==
  [e \in {seq[i] : i \in 1..Len(seq)} |->
     Cardinality({i \in 1..Len(seq) : seq[i] = e})]

\* The replay of the stopped recording has reached the end of the timeline.
ReplayDone ==
  /\ recorder.stopped
  /\ op \in {"play", "tick"}
  /\ Finished(emitted)

\* C2: recording the messages in arrival order, then loading the directory and
\* replaying it to the end, yields the same multiset of events as the live
\* pipeline emitted for those messages, and a final snapshot equal to the
\* pipeline's.
RoundTripFidelity ==
  ReplayDone =>
    /\ BagOfSeq(replayEvents) = BagOfSeq(liveEvents)
    /\ controller.accumulator = liveEndState[1]

\* C3: all `event` notifications of a message precede its `update`, each
\* message processed has exactly one `update`, and the notifications of a
\* message precede those of every later message.
PipelineOrdering ==
  /\ \A i, j \in 1..Len(plog) : i < j => plog[i].msg <= plog[j].msg
  /\ \A i \in 1..Len(plog) : plog[i].msg \in 1..Processed
  /\ \A n \in 1..Processed :
       /\ Cardinality({i \in 1..Len(plog) :
                         plog[i].msg = n /\ plog[i].type = "update"}) = 1
       /\ \A i, j \in 1..Len(plog) :
            (/\ plog[i].msg = n /\ plog[i].type = "event"
             /\ plog[j].msg = n /\ plog[j].type = "update") => i < j

\* Two messages processed, each with an event of its own.
PipelineOrderingWitness ==
  /\ Processed >= 2
  /\ \E i, j \in 1..Len(plog) :
       /\ plog[i].type = "event" /\ plog[i].msg = 1
       /\ plog[j].type = "event" /\ plog[j].msg = 2

EndOfTimeline ==
  quiet ~> /\ PendingTicks(controller) = {}
           /\ controller.status = "stopped"
           /\ Cardinality(Positions(sinceQuiet, "finished")) = 1
           /\ Delivered(sinceQuiet) =
                [i \in 1..(Len(T) - quietFrom) |-> quietFrom + i - 1]

\* A playback left alone with two entries to go, at its end.
EndOfTimelineWitness ==
  /\ quiet
  /\ controller.status = "stopped"
  /\ Len(Delivered(sinceQuiet)) = 2
  /\ Positions(sinceQuiet, "finished") # {}

\* C6 as stated: after `finished`, a further scheduleNext invocation emits
\* nothing and stop() is a no-op.
PostEndIdempotence ==
  [][Finished(emitted) =>
       /\ op' = "play" => emitted' = <<>>
       /\ op' = "stop" => /\ emitted' = <<>>
                          /\ controller'.status = controller.status
                          /\ controller'.currentIndex = controller.currentIndex]_vars

\* The controller at the end of its timeline, as `finished` leaves it and as it
\* stays until a seek, a stop or a load moves currentIndex.
AtEnd ==
  /\ Loaded
  /\ Len(T) > 0
  /\ controller.currentIndex >= Len(T)
  /\ controller.status # "playing"

\* C6 amended: after `finished`, until a seek, stop or load moves currentIndex,
\* a further scheduleNext invocation delivers nothing (no `update`, no `event`)
\* and leaves currentIndex and the snapshot alone and the status not playing,
\* but play() emits stateChange, `finished` and stateChange again; stop() emits
\* one stateChange and resets currentIndex to 0, leaving the status stopped and
\* the snapshot alone.
PostEndAmended ==
  [][AtEnd =>
       /\ Finished(emitted) => controller.status = "stopped"
       /\ op' \in {"play", "pause", "speed", "tick"} =>
            /\ NoDelivery(emitted')
            /\ controller'.currentIndex = controller.currentIndex
            /\ controller'.accumulator = controller.accumulator
            /\ controller'.status # "playing"
       /\ op' = "play" =>
            Types(emitted') = <<"stateChange", "finished", "stateChange">>
       /\ op' = "stop" =>
            /\ Types(emitted') = <<"stateChange">>
            /\ controller'.status = "stopped"
            /\ controller'.currentIndex = 0
            /\ controller'.accumulator = controller.accumulator]_vars

\* A play() at the end of the timeline: `finished` once more, nothing delivered.
PostEndWitness ==
  /\ op = "play"
  /\ Types(emitted) = <<"stateChange", "finished", "stateChange">>
  /\ controller.currentIndex = 3

\* C7: seek(t) emits no `update` or `event` while it replays, and exactly one
\* `seek` notification, whose snapshot reflects all of T[0 .. target) and whose
\* playbackState.currentIndex is target.
SilentSeek ==
  (op = "seek" /\ Loaded) =>
     /\ Cardinality(Positions(emitted, "seek")) = 1
     /\ \A k \in Positions(emitted, "seek") :
          /\ NoDelivery(SubSeq(emitted, 1, k))
          /\ emitted[k].state = Prefix(findIndex(T, arg))
          /\ emitted[k].playbackState.currentIndex = findIndex(T, arg)

\* A seek of a playing controller past two entries that change the flag.
SilentSeekWitness ==
  /\ op = "seek"
  /\ Loaded
  /\ findIndex(T, arg) = 2
  /\ Prefix(2).trackStatus.flag # Prefix(1).trackStatus.flag
  /\ Prefix(1).trackStatus.flag # S0.trackStatus.flag
  /\ Positions(emitted, "update") # {}

\* C8 as stated: seek(t) issued while playing leaves the status playing, and
\* issued while paused leaves it paused.
SeekKeepsStatus ==
  [][(op' = "seek" /\ controller.status \in {"playing", "paused"}) =>
       controller'.status = controller.status]_vars

\* C8 amended: seek(t) issued while paused leaves the status paused; issued
\* while playing it leaves the status playing when at least two entries lie at
\* or after t (findIndex(t) < length - 1), and otherwise the resumed playback
\* reaches the end of the timeline and the status is stopped when seek returns.
SeekKeepsStatusAmended ==
  [][op' = "seek" =>
       /\ controller.status = "paused" => controller'.status = "paused"
       /\ controller.status = "playing" =>
            controller'.status =
              IF findIndex(T, arg') < Len(T) - 1 THEN "playing" ELSE "stopped"]_vars

\* A seek that found the controller playing and left it playing.
SeekKeepsStatusWitness ==
  /\ op = "seek"
  /\ controller.status = "playing"
  /\ controller.currentIndex = 2

\* C9: setSpeed(s) while playing delivers no entry (no `update`, no `event`,
\* currentIndex and the snapshot unchanged) and leaves exactly one tick pending.
SetSpeedOnlyReschedules ==
  [][(op' = "speed" /\ controller.status = "playing") =>
       /\ NoDelivery(emitted')
       /\ controller'.currentIndex = controller.currentIndex
       /\ controller'.accumulator = controller.accumulator
       /\ PendingTicks(controller') = {"held"}
       /\ controller'.orphanTicks = 0]_vars

\* C10: after a `speed` command with a value <= 0 the speed reported, and used
\* for the tick delays, is 1.
NonPositiveSpeedIsOne ==
  (op = "speed" /\ arg <= 0) =>
     /\ controller.speed = 1
     /\ \A i \in 1..Len(emitted) :
          emitted[i].type = "stateChange" => emitted[i].playbackState.speed = 1

\* C11: load, in any controller state, leaves no tick pending, the status
\* `stopped`, currentIndex 0, the timeline of the directory installed and the
\* accumulator equal to s0 (the default state when s0 is null); it delivers no
\* entry and emits `loaded` once, as its last notification.
LoadResets ==
  (op = "load") =>
     /\ PendingTicks(controller) = {}
     /\ controller.status = "stopped"
     /\ controller.currentIndex = 0
     /\ controller.timeline = <<Timeline(loadTimeline(disk))>>
     /\ controller.accumulator =
          (IF disk.subscribe = <<>> THEN createEmptySessionState
           ELSE disk.subscribe[1])
     /\ NoDelivery(emitted)
     /\ Positions(emitted, "loaded") = {Len(emitted)}
     /\ emitted[Len(emitted)].playbackState.currentIndex = 0
     /\ emitted[Len(emitted)].playbackState.status = "stopped"

\* A reload after the playback was used (its speed changed), from a directory
\* with an initial state and three entries.
LoadResetsWitness ==
  /\ op = "load"
  /\ controller.speed = 2
  /\ disk.subscribe # <<>>
  /\ Len(T) = 3

\* C12 as stated: play() is a no-op when no timeline is loaded or the status
\* is already `playing`; otherwise it sets the status `playing`, emits
\* stateChange and delivers the entry at currentIndex.
PlayContract ==
  [][op' = "play" =>
       IF ~Loaded \/ controller.status = "playing"
         THEN /\ emitted' = <<>>
              /\ controller' = controller
         ELSE /\ controller'.status = "playing"
              /\ Len(emitted') >= 2
              /\ emitted'[1].type = "stateChange"
              /\ emitted'[2].type = "update"
              /\ emitted'[2].playbackState.currentIndex = controller.currentIndex]_vars

\* C12 amended: play() is a no-op (nothing emitted, nothing delivered, no tick
\* armed, the controller unchanged) when no timeline is loaded, when the
\* timeline is empty, or when the status is already `playing`. Otherwise it
\* first emits stateChange with status `playing`; then, if currentIndex <
\* length, it delivers the entry at currentIndex at once (update, then its
\* events) and is left `playing` with one tick pending if an entry remains,
\* else `stopped` after `finished`; if currentIndex >= length it delivers
\* nothing, emits `finished` and is left `stopped`.
PlayContractAmended ==
  [][op' = "play" =>
       IF ~Loaded \/ Len(T) = 0 \/ controller.status = "playing"
         THEN /\ emitted' = <<>>
              /\ controller' = controller
         ELSE /\ emitted'[1].type = "stateChange"
              /\ emitted'[1].playbackState.status = "playing"
              /\ IF controller.currentIndex < Len(T)
                   THEN /\ emitted'[2].type = "update"
                        /\ emitted'[2].entry = T[controller.currentIndex + 1]
                        /\ Delivered(emitted') = <<controller.currentIndex>>
                        /\ controller'.currentIndex = controller.currentIndex + 1
                   ELSE /\ NoDelivery(emitted')
                        /\ controller'.currentIndex = controller.currentIndex
              /\ IF controller.currentIndex + 1 < Len(T)
                   THEN /\ controller'.status = "playing"
                        /\ PendingTicks(controller') = {"held"}
                        /\ controller'.orphanTicks = 0
                        /\ ~Finished(emitted')
                   ELSE /\ controller'.status = "stopped"
                        /\ PendingTicks(controller') = {}
                        /\ Finished(emitted')]_vars

\* A play() that changed nothing, in the middle of a running playback.
PlayContractWitness ==
  /\ op = "play"
  /\ emitted = <<>>
  /\ controller.status = "playing"
  /\ controller.currentIndex = 2
  /\ controller.timer = "armed"

\* C13: the status changes only along the edges of the state machine:
\* stopped -> playing and paused -> playing by play(), playing -> paused by
\* pause(), playing/paused -> stopped by stop() or load(), and to stopped at
\* the end of the timeline (with `finished`).
StatusEdges ==
  [][controller'.status # controller.status =>
       \/ /\ controller'.status = "playing"
          /\ controller.status \in {"stopped", "paused"}
          /\ op' = "play"
       \/ /\ controller'.status = "paused"
          /\ controller.status = "playing"
          /\ op' = "pause"
       \/ /\ controller'.status = "stopped"
          /\ controller.status \in {"playing", "paused"}
          /\ op' \in {"stop", "load"}
       \/ /\ controller'.status = "stopped"
          /\ Finished(emitted')]_vars

(* ------------------------ publisher: the claims ----------------------- *)

\* The state topics publishState writes: P/session/{flag, lap, weather, info,
\* race_control, leader} and P/driver/*.
IsPublishStateTopic(t) ==
  /\ Len(t) >= 3
  /\ t[1] = publisher.config.prefix
  /\ \/ t[2] = "session"
        /\ t[3] \in {"flag", "lap", "weather", "info", "race_control", "leader"}
     \/ t[2] = "driver"

\* C14: a publishState call made before the first registerSessionEntities, or
\* after a deregisterSessionEntities that no registerSessionEntities has
\* followed, publishes nothing: no message on a P/session/{flag, lap, weather,
\* info, race_control, leader} or P/driver/* topic, and none anywhere else.
PublishStateGated ==
  (call = "publishState" /\ session # "registered") =>
    /\ \A i \in 1..Len(published) : ~IsPublishStateTopic(published[i].topic)
    /\ published = <<>>

\* publishState has been called after a deregistration, by a publisher with
\* favourite drivers and the notifier enabled.
PublishStateGatedWitness ==
  /\ call = "publishState"
  /\ session = "deregistered"
  /\ publisher.config.favoriteDrivers = <<1, 44>>
  /\ publisher.config.awtrixEnabled

\* The discovery topics of a session: the base entities and three per
\* favourite driver.
SessionDiscoveryTopics ==
  {<<"homeassistant", "sensor", "f12mqtt", id, "config">> :
     id \in {"session_status", "flag_status", "race_leader", "lap_count",
             "weather_status", "latest_overtake", "latest_pit_stop",
             "playback_status"}}
  \cup {<<"homeassistant", "sensor", "f12mqtt", "driver", num, kind, "config">> :
          num \in {publisher.config.favoriteDrivers[i] :
                     i \in 1..Len(publisher.config.favoriteDrivers)},
          kind \in {"position", "gap", "tyre"}}

\* C15: deregisterSessionEntities publishes an empty retained payload on
\* exactly the discovery topics the preceding registerSessionEntities
\* published (the base entities plus three per favourite driver), one clear
\* per topic, then publishes P/session/status = "finished" retained and
\* forgets the set: a deregister that follows no register clears nothing.
DeregisterClears ==
  [][call' = "deregisterSessionEntities" =>
       LET expected == IF session = "registered" THEN announced ELSE <<>>
       IN /\ Len(published') = Len(expected) + 1
          /\ \A i \in 1..Len(expected) :
               published'[i] = [topic |-> expected[i], payload |-> Str(""),
                                retain |-> TRUE]
          /\ published'[Len(published')] =
               [topic   |-> <<publisher.config.prefix, "session", "status">>,
                payload |-> Str("finished"),
                retain  |-> TRUE]
          /\ publisher'.registeredEphemeralTopics = <<>>
          /\ session = "registered" =>
               /\ {expected[i] : i \in 1..Len(expected)} = SessionDiscoveryTopics
               /\ Len(expected) = 8 + 3 * Len(publisher.config.favoriteDrivers)]_vars

\* A session with two favourite drivers has been deregistered: fourteen
\* clears and the status.
DeregisterClearsWitness ==
  /\ call = "deregisterSessionEntities"
  /\ Len(published) = 15

\* C16: every publication on a state topic (P/session/*, P/driver/*) or on a
\* discovery config topic is retained, and every publication on an event
\* topic (P/event/{flag, overtake, pit_stop, weather}) is not.
RetentionDiscipline ==
  \A i \in 1..Len(published) :
    LET m == published[i]
    IN /\ (m.topic[1] = publisher.config.prefix /\ m.topic[2] \in {"session", "driver"})
            => m.retain
       /\ (m.topic[1] = "homeassistant" /\ m.topic[Len(m.topic)] = "config")
            => m.retain
       /\ (m.topic[1] = publisher.config.prefix /\ m.topic[2] = "event")
            => ~m.retain

\* publishEvents has published an overtake and a pit stop.
RetentionDisciplineWitness ==
  /\ call = "publishEvents"
  /\ \E i, j \in 1..Len(published) :
       /\ published[i].topic = <<publisher.config.prefix, "event", "overtake">>
       /\ published[j].topic = <<publisher.config.prefix, "event", "pit_stop">>

(* ----------------------- accumulator: the claims ---------------------- *)

\* The message of the step is a diff of `topic`.
Diff(m, topic) == m.topic = topic

\* A TimingData diff that carries a line for the driver.
TimingLine(m, num) == Diff(m, "TimingData") /\ num \in DOMAIN m.data.Lines

\* A TimingAppData diff that carries a stint with a compound for the driver.
NamesCompound(m, num) ==
  /\ Diff(m, "TimingAppData")
  /\ num \in DOMAIN m.data.Lines
  /\ \E k \in DOMAIN m.data.Lines[num].Stints :
       m.data.Lines[num].Stints[k].Compound # Undefined

\* C18: partial merge.  Whatever value a snapshot field has been given, a
\* later diff that does not mention the field leaves it as it is: the flag and
\* its message, the two lap counts, each weather reading, each property of a
\* driver's timing row, and the compound of a driver's stint.
PartialMerge ==
  [][op' = "processMessage" =>
       LET m == arg'
           s == pipeline.accumulator
           t == pipeline'.accumulator
       IN /\ ~(Diff(m, "TrackStatus") /\ m.data.Status # Undefined)
               => t.trackStatus.flag = s.trackStatus.flag
          /\ ~(Diff(m, "TrackStatus") /\ m.data.Message # Undefined)
               => t.trackStatus.message = s.trackStatus.message
          /\ ~(Diff(m, "LapCount") /\ m.data.CurrentLap # UndefinedNum)
               => t.lapCount.current = s.lapCount.current
          /\ ~(Diff(m, "LapCount") /\ m.data.TotalLaps # UndefinedNum)
               => t.lapCount.total = s.lapCount.total
          /\ s.weather # <<>> =>
               /\ t.weather # <<>>
               /\ ~(Diff(m, "WeatherData") /\ m.data.Rainfall # Undefined)
                    => t.weather[1].rainfall = s.weather[1].rainfall
               /\ ~(Diff(m, "WeatherData") /\ m.data.AirTemp # Undefined)
                    => t.weather[1].airTemp = s.weather[1].airTemp
          /\ \A num \in DOMAIN s.timing :
               /\ num \in DOMAIN t.timing
               /\ ~(TimingLine(m, num) /\ m.data.Lines[num].Position # Undefined)
                    => t.timing[num].position = s.timing[num].position
               /\ ~(TimingLine(m, num) /\ m.data.Lines[num].InPit # Undefined)
                    => t.timing[num].inPit = s.timing[num].inPit
               /\ ~(TimingLine(m, num) /\ m.data.Lines[num].Retired # Undefined)
                    => t.timing[num].retired = s.timing[num].retired
          /\ \A num \in DOMAIN s.stints :
               /\ num \in DOMAIN t.stints
               /\ ~NamesCompound(m, num)
                    => t.stints[num].compound = s.stints[num].compound]_vars

\* The Status codes the flag table knows.
RecognisedCodes == {"1", "2", "4", "5", "6", "7"}

\* C19: a TrackStatus diff whose Status code is missing or is not one of the
\* recognised codes leaves trackStatus, flag and message, as it was, and
\* processing it emits no flag_change event.
UnknownFlagIgnored ==
  [][(op' = "processMessage" /\ Diff(arg', "TrackStatus")
        /\ arg'.data.Status \notin RecognisedCodes) =>
       /\ pipeline'.accumulator.trackStatus = pipeline.accumulator.trackStatus
       /\ \A i \in 1..Len(emitted') :
            /\ emitted'[i].type = "event" => emitted'[i].event.type # "flag_change"
            /\ emitted'[i].type = "update" =>
                 \A j \in 1..Len(emitted'[i].events) :
                   emitted'[i].events[j].type # "flag_change"]_vars

\* An unrecognised code has arrived under a red flag that carries a message.
UnknownFlagIgnoredWitness ==
  /\ op = "processMessage"
  /\ arg.topic = "TrackStatus"
  /\ arg.data.Status = "99"
  /\ pipeline.accumulator.trackStatus = [flag |-> "red", message |-> "Red"]

\* C20: processing the same message twice in succession leaves the snapshot
\* after the second application equal to the snapshot after the first, with
\* the same drivers in its maps, and the second application emits no event.
IdempotentApplication ==
  [][(op = "processMessage" /\ op' = "processMessage" /\ arg' = arg) =>
       /\ pipeline'.accumulator = pipeline.accumulator
       /\ DOMAIN pipeline'.accumulator.timing = DOMAIN pipeline.accumulator.timing
       /\ DOMAIN pipeline'.accumulator.stints = DOMAIN pipeline.accumulator.stints
       /\ EventsOf(emitted') = <<>>
       /\ \A i \in 1..Len(emitted') :
            emitted'[i].type = "update" => emitted'[i].events = <<>>]_vars

\* The timing diff that swaps two drivers has been processed a second time:
\* the first application reported the overtake, the second only the update.
IdempotentApplicationWitness ==
  /\ op = "processMessage"
  /\ prior = arg
  /\ arg.topic = "TimingData"
  /\ 1 \in DOMAIN arg.data.Lines
  /\ arg.data.Lines[1].Position = "2"
  /\ pipeline.accumulator.timing[44].inPit = "false"
  /\ Len(emitted) = 1

(* ------------------------- snapshots: the claim ----------------------- *)

\* C17: snapshot independence.  A value returned by snapshot() is not changed
\* by any later apply; writing to it changes neither the accumulator's state
\* nor any other snapshot; and the prev state handed to the detectors shares
\* no object with the curr state.
SnapshotIndependence ==
  [][/\ hop'.name \in {"processMessage", "processEntry"} =>
          /\ \A ref \in held : Deref(store'.heap, ref) = Deref(store.heap, ref)
          /\ ObjectsOf(store'.heap, handed'.prev)
               \cap ObjectsOf(store'.heap, handed'.curr) = {}
     /\ hop'.name = "mutate" =>
          /\ Deref(store'.heap, store'.state) = Deref(store.heap, store.state)
          /\ \A ref \in held \ {hop'.target} :
               Deref(store'.heap, ref) = Deref(store.heap, ref)]_vars

\* Two snapshots are held, one taken under green and one under red; the
\* holder of one has written to it, and the accumulator has moved on since.
SnapshotIndependenceWitness ==
  /\ hop.name = "mutate"
  /\ Cardinality(held) = 2
  /\ \E a, b \in held :
       /\ Deref(store.heap, a).trackStatus.flag = "yellow"
       /\ Deref(store.heap, b).trackStatus.flag = "red"
  /\ Deref(store.heap, store.state).trackStatus.flag = "green"
  /\ fed = 2

(* -------------------------- topThree: the claim ------------------------ *)

\* C21: in every snapshot of the accumulator, topThree has at most 3 entries
\* and is sorted ascending by position, and it is empty after a TopThree diff
\* that signals Withheld.
TopThreeInvariant ==
  LET topThree == pipeline.accumulator.topThree
  IN /\ Len(topThree) <= 3
     /\ \A i \in 1..(Len(topThree) - 1) : topThree[i].position <= topThree[i + 1].position
     /\ (op = "processMessage" /\ arg.topic = "TopThree" /\ arg.data.Withheld = "true")
          => topThree = <<>>

(* -------------------------- timeline: the claims ----------------------- *)

\* The entries of a timeline at or after t, as indices counted from 0.
AtOrAfter(TL, t) == {i \in 0..(Len(TL) - 1) : TL[i + 1].timestamp >= t}

\* C22: findIndex(t) returns the smallest index i with entry[i].timestamp >= t,
\* or length when there is none: 0 on an empty timeline, 0 when t precedes all
\* entries, length when t follows all entries, and the index of the first of
\* several entries whose timestamp equals t.
FindIndexFirstAtOrAfter ==
  fn = "findIndex" =>
    LET TL == fargs[1]
        t == fargs[2]
    IN /\ fret = IF AtOrAfter(TL, t) = {} THEN Len(TL)
                 ELSE CHOOSE i \in AtOrAfter(TL, t) : \A j \in AtOrAfter(TL, t) : i <= j
       /\ Len(TL) = 0 => fret = 0
       /\ (\A i \in 1..Len(TL) : t < TL[i].timestamp) => fret = 0
       /\ (\A i \in 1..Len(TL) : t > TL[i].timestamp) => fret = Len(TL)
       /\ \A i \in 1..Len(TL) :
            (TL[i].timestamp = t /\ \A j \in 1..(i - 1) : TL[j].timestamp # t)
              => fret = i - 1

\* findIndex has been asked for a timestamp that two entries carry, behind an
\* earlier entry and before a later one.
FindIndexWitness ==
  /\ fn = "findIndex"
  /\ Len(fargs[1]) = 4
  /\ fargs[1][1].timestamp < fargs[2]
  /\ fargs[1][2].timestamp = fargs[2]
  /\ fargs[1][3].timestamp = fargs[2]
  /\ fargs[1][4].timestamp > fargs[2]
  /\ fret = 1

\* C23: getRange(a, b) returns exactly the entries with a <= timestamp <= b,
\* every entry at b included, in timeline order, and the empty list when no
\* entry lies in the range.
GetRangeInclusive ==
  fn = "getRange" =>
    LET TL == fargs[1]
        a == fargs[2]
        b == fargs[3]
    IN /\ fret = SelectSeq(TL, LAMBDA e : a <= e.timestamp /\ e.timestamp <= b)
       /\ (\A i \in 1..Len(TL) : ~(a <= TL[i].timestamp /\ TL[i].timestamp <= b))
            => fret = <<>>

\* getRange has returned two entries at its end time, and left out an
\* earlier and a later entry.
GetRangeWitness ==
  /\ fn = "getRange"
  /\ Len(fargs[1]) = 4
  /\ fargs[2] <= fargs[3]
  /\ fargs[1][1].timestamp < fargs[2]
  /\ fargs[1][4].timestamp > fargs[3]
  /\ Len(fret) = 2
  /\ fret[1].timestamp = fargs[3]
  /\ fret[2].timestamp = fargs[3]

(* -------------------------- detectors: the claims ---------------------- *)

\* The ordered pairs (d, o): d gained a position and is not in pit, o was
\* ahead of d, is behind d now and was at or behind d's new position, o is
\* not in pit in either snapshot and not retired now.  A position is compared
\* only when it is known.
PassedPairs(prev, curr) ==
  LET both == DOMAIN prev.timing \cap DOMAIN curr.timing
  IN {pair \in both \X both :
        LET d == pair[1]
            o == pair[2]
        IN /\ d # o
           /\ \A t \in {prev.timing[d], curr.timing[d], prev.timing[o], curr.timing[o]} :
                t.position # UndefinedNum
           /\ curr.timing[d].position < prev.timing[d].position
           /\ curr.timing[d].inPit # "true"
           /\ prev.timing[o].position < prev.timing[d].position
           /\ curr.timing[o].position > curr.timing[d].position
           /\ prev.timing[o].position >= curr.timing[d].position
           /\ prev.timing[o].inPit # "true"
           /\ curr.timing[o].inPit # "true"
           /\ curr.timing[o].retired # "true"}

\* C24: detectOvertakes(prev, curr) returns exactly one event for each such
\* pair, with newPosition = curr[d].position, and nothing else; it returns no
\* event at all when curr's flag is sc, vsc, vsc_ending or red.
OvertakesExact ==
  fn = "detectOvertakes" =>
    LET prev == fargs[1]
        curr == fargs[2]
        pairs == PassedPairs(prev, curr)
    IN IF curr.trackStatus.flag \in {"sc", "vsc", "vsc_ending", "red"}
         THEN fret = <<>>
         ELSE /\ Len(fret) = Cardinality(pairs)
              /\ \A i \in 1..Len(fret) :
                   /\ fret[i].type = "overtake"
                   /\ <<fret[i].overtakingDriver, fret[i].overtakenDriver>> \in pairs
                   /\ fret[i].newPosition = curr.timing[fret[i].overtakingDriver].position
              /\ \A pair \in pairs :
                   Cardinality({i \in 1..Len(fret) :
                                  /\ fret[i].overtakingDriver = pair[1]
                                  /\ fret[i].overtakenDriver = pair[2]}) = 1

\* Under green, a driver has passed two others at once.
OvertakesWitness ==
  /\ fn = "detectOvertakes"
  /\ fargs[2].trackStatus.flag = "green"
  /\ Len(fret) = 2
  /\ fret[1].overtakingDriver = fret[2].overtakingDriver
  /\ fret[1].newPosition = 1

\* The drivers of curr.stints whose stint number went up, or whose first
\* known stint is not stint 0.
DuePitStops(prev, curr) ==
  {num \in DOMAIN curr.stints :
     IF num \in DOMAIN prev.stints
       THEN curr.stints[num].stintNumber > prev.stints[num].stintNumber
       ELSE curr.stints[num].stintNumber > 0}

\* C25: detectPitStops(prev, curr) emits one pit_stop for each of these
\* drivers and nothing for any other driver; the initial stint (stint 0 with
\* no prior record) produces no event.
PitStopsExact ==
  fn = "detectPitStops" =>
    LET prev == fargs[1]
        curr == fargs[2]
        due == DuePitStops(prev, curr)
    IN /\ Len(fret) = Cardinality(due)
       /\ \A i \in 1..Len(fret) :
            /\ fret[i].type = "pit_stop"
            /\ fret[i].driverNumber \in due
            /\ fret[i].stintNumber = curr.stints[fret[i].driverNumber].stintNumber
       /\ \A num \in due :
            Cardinality({i \in 1..Len(fret) : fret[i].driverNumber = num}) = 1
       /\ \A num \in DOMAIN curr.stints \ DOMAIN prev.stints :
            curr.stints[num].stintNumber = 0
              => \A i \in 1..Len(fret) : fret[i].driverNumber # num

\* One driver came out on a new stint while another, seen for the first
\* time, is on its starting set.
PitStopsWitness ==
  /\ fn = "detectPitStops"
  /\ 44 \in DOMAIN fargs[1].stints
  /\ 44 \in DOMAIN fargs[2].stints
  /\ fargs[2].stints[44].stintNumber > fargs[1].stints[44].stintNumber
  /\ 1 \notin DOMAIN fargs[1].stints
  /\ 1 \in DOMAIN fargs[2].stints
  /\ fargs[2].stints[1].stintNumber = 0
  /\ Len(fret) = 1
  /\ fret[1].driverNumber = 44

\* C26: detectWeatherChange(prev, curr) emits exactly one weather_change
\* {previousRainfall, newRainfall} iff curr.weather is present and its rainfall
\* differs from prev's, a null prev.weather counting as rainfall = false; it
\* emits nothing when curr.weather is null.
WeatherChangeIff ==
  fn = "detectWeatherChange" =>
    LET prev == fargs[1]
        curr == fargs[2]
        prevRainfall == IF prev.weather = <<>> THEN "false" ELSE prev.weather[1].rainfall
        differs == curr.weather # <<>> /\ curr.weather[1].rainfall # prevRainfall
    IN /\ differs => /\ Len(fret) = 1
                      /\ fret[1].type = "weather_change"
                      /\ fret[1].previousRainfall = prevRainfall
                      /\ fret[1].newRainfall = curr.weather[1].rainfall
       /\ ~differs => fret = <<>>
       /\ curr.weather = <<>> => fret = <<>>

\* C26, amended: the event is emitted iff curr.weather is present, its
\* rainfall is known and differs from prev's, where a null prev.weather and a
\* prev.weather whose rainfall is not known both count as rainfall = false;
\* nothing is emitted when curr.weather is null or its rainfall is not known.
WeatherChangeAmended ==
  fn = "detectWeatherChange" =>
    LET prev == fargs[1]
        curr == fargs[2]
        prevRainfall == IF prev.weather = <<>> THEN "false"
                        ELSE IF prev.weather[1].rainfall = Undefined THEN "false"
                        ELSE prev.weather[1].rainfall
        differs == /\ curr.weather # <<>>
                   /\ curr.weather[1].rainfall # Undefined
                   /\ curr.weather[1].rainfall # prevRainfall
    IN /\ differs => /\ Len(fret) = 1
                      /\ fret[1].type = "weather_change"
                      /\ fret[1].previousRainfall = prevRainfall
                      /\ fret[1].newRainfall = curr.weather[1].rainfall
       /\ ~differs => fret = <<>>
       /\ curr.weather = <<>> => fret = <<>>

\* Rain has begun with no weather known before.
WeatherChangeWitness ==
  /\ fn = "detectWeatherChange"
  /\ fargs[1].weather = <<>>
  /\ fargs[2].weather # <<>>
  /\ fargs[2].weather[1].rainfall = "true"
  /\ Len(fret) = 1
  /\ fret[1].previousRainfall = "false"

(* ----------------------- playback and the pipeline --------------------- *)

\* The `event` and `update` notifications of a log, each with what it carries
\* of the message's effect.
Deliveries(log) ==
  LET delivered == SelectSeq(log, LAMBDA n : n.type \in {"update", "event"})
  IN [i \in 1..Len(delivered) |->
        IF delivered[i].type = "event"
          THEN [type |-> "event", event |-> delivered[i].event]
          ELSE [type |-> "update", events |-> delivered[i].events,
                state |-> delivered[i].state]]

\* What SignalRPipeline.processMessage emits for the entry at the controller's
\* index, applied to the controller's snapshot.
LiveDeliveries ==
  LET entry == T[controller.currentIndex + 1]
  IN Deliveries(processMessage([accumulator |-> controller.accumulator, out |-> <<>>],
                               [topic     |-> entry.topic,
                                data      |-> entry.data,
                                timestamp |-> entry.timestamp]).out)

\* C29: for each replayed entry the controller emits one `event` notification
\* per detected event and then one `update`, in the same order and with the
\* same events as processMessage emits for the same message applied to the
\* same prior state.
PlaybackEmitsLikePipeline ==
  [][(op' \in {"play", "tick"} /\ ~NoDelivery(emitted'))
       => Deliveries(emitted') = LiveDeliveries]_vars

(* ------------------------ snapshot and index --------------------------- *)

\* C30: whenever no controller operation is in progress, the controller's
\* snapshot equals the loaded initial state (or the defaults) with the entries
\* [0, currentIndex) applied in order: after every load, play, pause, stop,
\* seek, setSpeed and timer tick.
SnapshotIndexConsistency ==
  controller.accumulator = Prefix(controller.currentIndex)

(* -------------------------- recorder: the claims ----------------------- *)

\* C27: after start(metadata, s0), any number of write(m) calls and stop(),
\* loading the recording directory returns s0 as the initial state and, as
\* the timeline entries, exactly the messages written since that start(), in
\* write order, with timestamp, topic and data preserved.
RecorderFidelity ==
  (started # <<>> /\ started[1].stopped) =>
    /\ loadInitialState(disk) = <<started[1].state>>
    /\ loadTimeline(disk) = written

\* C28: a second stop() closes and writes nothing again, and a write() called
\* before start() or after stop() appends no line and leaves the message
\* count unchanged.
RecorderLifecycle ==
  [][/\ (op' = "stop" /\ started # <<>> /\ started[1].stopped)
          => /\ disk' = disk
             /\ recorder'.stream = recorder.stream
             /\ recorder'.messageCount = recorder.messageCount
     /\ (op' = "write" /\ (started = <<>> \/ started[1].stopped))
          => /\ disk' = disk
             /\ recorder'.messageCount = recorder.messageCount]_vars

\* A write() after the stop() of a recording that holds messages.
RecorderLifecycleWitness ==
  /\ op = "write"
  /\ started # <<>>
  /\ started[1].stopped
  /\ written # <<>>
  /\ recorder.messageCount = Len(written)

(* ---------------------- scheduling: the claims ------------------------ *)

\* The number of pending timeouts.
Pending == (IF controller.timer = "armed" THEN 1 ELSE 0) + controller.orphanTicks

DeliveryBase ==
  IF op' = "seek" /\ Loaded THEN findIndex(T, arg')
  ELSE IF op' \in {"stop", "load"} THEN 0
  ELSE controller.currentIndex

ReentrantCancellation ==
  (op \in {"tickObserved", "playObserved"} /\ observed[1].cmd # "play") =>
     /\ controller.currentIndex = observed[1].currentIndex
     /\ Pending = observed[1].pending

\* The milliseconds between the entry delivered last and the entry the armed
\* tick will deliver, one timestamp unit being 6000 ms.
GapMs ==
  6000 * (T[controller.currentIndex + 1].timestamp
            - T[controller.currentIndex].timestamp)

Held == fret.arrays[fret.entries]

\* C35: the timeline's entries are a permutation of the constructor's input
\* in non-decreasing timestamp order, entries with equal timestamps keep their
\* input order, and a later mutation of the input array changes neither the
\* timeline's length nor its order.  (The entries of an input are distinct.)
TimelineConstruction ==
  fn \in {"Timeline", "mutate"} =>
    LET input    == fargs[1]
        place(e) == CHOOSE k \in 1..Len(input) : input[k] = e
    IN /\ Len(Held) = Len(input)
       /\ \A k \in 1..Len(input) : \E i \in 1..Len(Held) : Held[i] = input[k]
       /\ \A i, j \in 1..Len(Held) :
            i < j => /\ Held[i].timestamp <= Held[j].timestamp
                     /\ Held[i].timestamp = Held[j].timestamp
                          => place(Held[i]) < place(Held[j])

\* An input out of order with two entries at one timestamp, whose array the
\* caller has changed since.
TimelineConstructionWitness ==
  /\ fn = "mutate"
  /\ Len(fargs[1]) = 3
  /\ fargs[1][1].timestamp = 2
  /\ fargs[1][2].timestamp = 1
  /\ fargs[1][3].timestamp = 2
  /\ fret.arrays.input # fargs[1]

(* ----------------------- aggregator: the claims ----------------------- *)

\* The place of a kind of event in the aggregator's order.
KindRank(type) ==
  CASE type = "flag_change"    -> 1
    [] type = "overtake"       -> 2
    [] type = "pit_stop"       -> 3
    [] type = "weather_change" -> 4

\* C36: detectEvents(prev, curr) is the concatenation of the results of the
\* flag, overtake, pit-stop and weather detectors, in that order, so within
\* one list every flag_change precedes every overtake, which precedes every
\* pit_stop, which precedes every weather_change.
AggregatorOrder ==
  fn = "detectEvents" =>
    /\ fret = detectFlagChange(fargs[1], fargs[2])
                \o detectOvertakes(fargs[1], fargs[2])
                \o detectPitStops(fargs[1], fargs[2])
                \o detectWeatherChange(fargs[1], fargs[2])
    /\ \A i, j \in 1..Len(fret) :
         i < j => KindRank(fret[i].type) <= KindRank(fret[j].type)

\* A pair of snapshots with events of all four kinds, two of them overtakes.
AggregatorOrderWitness ==
  /\ fn = "detectEvents"
  /\ {fret[i].type : i \in 1..Len(fret)} =
       {"flag_change", "overtake", "pit_stop", "weather_change"}
  /\ Cardinality({i \in 1..Len(fret) : fret[i].type = "overtake"}) = 2

(* -------------------------- bus: the claims --------------------------- *)

\* C37: once deregisterSessionEntities has returned, no ephemeral discovery
\* topic that received a retained config during the session still holds a
\* non-empty retained payload on the bus, whether or not the client was
\* connected when deregister was called.
NoConfigOutlivesSession ==
  session = "deregistered" =>
    \A i \in 1..Len(announced) : \A r \in bus : r.topic # announced[i]

(* ---------------------- data sources: the claims ---------------------- *)

\* C38: stream(from, speed) of the recorded source and of the historical-API
\* source each yield exactly the entries whose timestamp is >= from, in
\* ascending timeline order, and nothing when from is later than every entry.
SourcesAgree ==
  fn = "stream" =>
    LET due == SelectSeq(fargs[1], LAMBDA e : e.timestamp >= fargs[2])
    IN /\ fret.recorded = due
       /\ fret.openf1 = due

(* --------------------------- feed: the claims ------------------------- *)

\* C39: F1SignalRClient emits `message` events in the order the feed
\* delivered the messages, so the timestamps of the messages emitted never
\* decrease, compressed `.z` topics included: the lines the recorder writes,
\* one per message emitted and in the order of emission, are in timestamp
\* order.
FeedOrderPreserved ==
  \A i, j \in 1..Len(disk.lines) :
    i < j => disk.lines[i].ts <= disk.lines[j].ts

====
